---- MODULE Spec2Model ----
(***************************************************************************)
(* File-backed agent memory: the long-term fact sheet (LongTermMemory),    *)
(* and the append-only session transcript (Transcript) with compaction.    *)
(*                                                                         *)
(* Text is modelled as JavaScript sees it after split('\n'): a non-empty   *)
(* sequence of lines, a line being a sequence of characters.  A character  *)
(* is a TLA+ string; a word such as "Dog" stands for a run of letters that *)
(* holds no whitespace, no '#' and no bullet marker.                       *)
(***************************************************************************)
EXTENDS Integers, Sequences, FiniteSets, TLC

VARIABLES
    ltFile,      \* MEMORY.md on disk: [exists, text]
    ltCache,     \* LongTermMemory.cache: [set, text] (set = FALSE is null)
    ltOp,        \* the last LongTermMemory call: [name, section, fact, skip, had]
    ltResult,    \* what that call returned
    trFile,      \* the session's .jsonl file: [exists, lines]
    entries,     \* Transcript.entries
    totalTokens, \* Transcript.totalTokens
    loaded,      \* Transcript.loaded
    uuidCount,   \* ids and timestamps handed out so far
    trOp,        \* the last Transcript / compact call
    trResult,    \* what compact returned
    dnDir,       \* the daily notes directory: [exists, files], a file per date
    dnClock,     \* the host's clock: a position in ClockValues
    dnOp,        \* the last DailyNotes call: [name, content, section]
    dnResult,    \* what that call returned
    ssFile,      \* sessions.json on disk: [exists, sessions]
    sessions,    \* SessionStore.sessions
    ssLoaded,    \* SessionStore.loaded
    current,     \* the id of the session whose transcript is open
    parked,      \* the transcript files of the other sessions, by session id
    ssOp,        \* the last SessionStore call: [name, sessionId]
    ssResult,    \* what that call returned
    srOp,        \* the last search call: [store, pattern]
    srResult,    \* what it returned: a sequence of [date, line]
    pending,     \* the addFact / addEntry calls in flight, by store and caller
    rwLog        \* the reads and writes those calls have made, in order

ltVars == <<ltFile, ltCache, ltOp, ltResult>>

trVars == <<trFile, entries, totalTokens, loaded, uuidCount, trOp, trResult>>

dnVars == <<dnDir, dnClock, dnOp, dnResult>>

ssVars == <<ssFile, sessions, ssLoaded, current, parked, ssOp, ssResult>>

srVars == <<srOp, srResult>>

rwVars == <<pending, rwLog>>

\* what the calls that are neither a search nor in flight leave alone
callVars == <<srVars, rwVars>>

\* what a LongTermMemory call leaves alone, and what a Transcript call does
nonLt == <<trVars, dnVars, ssVars, callVars>>

nonTr == <<ltVars, dnVars, ssVars, callVars>>

vars == <<ltVars, trVars, dnVars, ssVars, callVars>>

----------------------------------------------------------------------------
(* Strings *)

Whitespace == {" "}

BulletMarkers == {"-", "*", "+"}

\* String.prototype.toLowerCase, one character at a time
toLowerCaseChar(c) ==
    CASE c = "Dog" -> "dog"
      [] c = "Max" -> "max"
      [] c = "MAX" -> "max"
      [] c = "Shipped" -> "shipped"
      [] OTHER -> c

toLowerCase(l) == [i \in 1..Len(l) |-> toLowerCaseChar(l[i])]

\* index of the first / last character that is not whitespace
FirstNonWs(l) ==
    IF \E i \in 1..Len(l) : l[i] \notin Whitespace
    THEN CHOOSE i \in 1..Len(l) :
            l[i] \notin Whitespace /\ \A j \in 1..(i-1) : l[j] \in Whitespace
    ELSE Len(l) + 1

LastNonWs(l) ==
    IF \E i \in 1..Len(l) : l[i] \notin Whitespace
    THEN CHOOSE i \in 1..Len(l) :
            l[i] \notin Whitespace /\ \A j \in (i+1)..Len(l) : l[j] \in Whitespace
    ELSE 0

\* String.prototype.trim on a string that holds no line break
trim(l) == SubSeq(l, FirstNonWs(l), LastNonWs(l))

IsBlank(l) == FirstNonWs(l) > Len(l)

\* the empty string, split into lines
EmptyText == << <<>> >>

\* index of the first / last line that is not blank
FirstNonBlank(t) ==
    IF \E i \in 1..Len(t) : ~IsBlank(t[i])
    THEN CHOOSE i \in 1..Len(t) :
            ~IsBlank(t[i]) /\ \A j \in 1..(i-1) : IsBlank(t[j])
    ELSE Len(t) + 1

LastNonBlank(t) ==
    IF \E i \in 1..Len(t) : ~IsBlank(t[i])
    THEN CHOOSE i \in 1..Len(t) :
            ~IsBlank(t[i]) /\ \A j \in (i+1)..Len(t) : IsBlank(t[j])
    ELSE 0

\* String.prototype.trim on a string of several lines: line breaks are
\* whitespace too, so blank lines at either end go with them
trimText(t) ==
    LET a == FirstNonBlank(t)
        b == LastNonBlank(t)
    IN  IF a > Len(t) THEN EmptyText
        ELSE IF a = b THEN << trim(t[a]) >>
        ELSE << SubSeq(t[a], FirstNonWs(t[a]), Len(t[a])) >>
             \o SubSeq(t, a + 1, b - 1)
             \o << SubSeq(t[b], 1, LastNonWs(t[b])) >>

\* String.prototype.trimEnd on a string of several lines
trimEndText(t) ==
    LET b == LastNonBlank(t)
    IN  IF b = 0 THEN EmptyText
        ELSE SubSeq(t, 1, b - 1) \o << SubSeq(t[b], 1, LastNonWs(t[b])) >>

\* line.replace(/^\s*[-*+]\s*/, '')
stripBullet(l) ==
    LET i == FirstNonWs(l)
    IN  IF i <= Len(l) /\ l[i] \in BulletMarkers
        THEN LET rest == SubSeq(l, i + 1, Len(l))
             IN  SubSeq(rest, FirstNonWs(rest), Len(rest))
        ELSE l

\* /^##\s+/ : a line that starts a second-level section
isSectionHeading(l) ==
    Len(l) >= 3 /\ l[1] = "#" /\ l[2] = "#" /\ l[3] \in Whitespace

\* new RegExp(`^##\\s+${title}\\s*$`) tested on one line; title holds no
\* whitespace at either end
sectionPattern(l, title) ==
    isSectionHeading(l) /\ trim(SubSeq(l, 3, Len(l))) = title

----------------------------------------------------------------------------
(* The section document (utils/markdown) *)

\* number of leading '#' characters
HashCount(l) ==
    IF \E i \in 1..Len(l) : l[i] # "#"
    THEN (CHOOSE i \in 1..Len(l) : l[i] # "#" /\ \A j \in 1..(i-1) : l[j] = "#") - 1
    ELSE Len(l)

\* a heading line: one to three '#', whitespace, then the title text
IsHeading(l) ==
    LET n == HashCount(l)
    IN  /\ n \in 1..3
        /\ Len(l) >= n + 2
        /\ l[n + 1] \in Whitespace

HeadingTitle(l) == trim(SubSeq(l, HashCount(l) + 2, Len(l)))

Heads(t) == {i \in 1..Len(t) : IsHeading(t[i])}

\* the k-th heading line of t, counted from 1
NthHead(t, k) == CHOOSE i \in Heads(t) : Cardinality({j \in Heads(t) : j < i}) = k - 1

\* the line after the section that starts at heading h
SectionEnd(t, h) ==
    IF \E j \in Heads(t) : j > h
    THEN CHOOSE j \in Heads(t) : j > h /\ \A k \in Heads(t) : k > h => j <= k
    ELSE Len(t) + 1

\* the lines of u without the blank lines at either end
TrimBlankLines(u) == SubSeq(u, FirstNonBlank(u), LastNonBlank(u))

\* parse(text): the sections in document order, each with its raw body; text
\* above the first heading is an untitled leading section
parseSections(t) ==
    LET n == Cardinality(Heads(t))
        first == IF n = 0 THEN Len(t) + 1 ELSE NthHead(t, 1)
        leading == IF first > 1
                   THEN << [title |-> <<>>, body |-> SubSeq(t, 1, first - 1)] >>
                   ELSE <<>>
    IN  leading \o
        [k \in 1..n |->
            [title |-> HeadingTitle(t[NthHead(t, k)]),
             body  |-> SubSeq(t, NthHead(t, k) + 1, SectionEnd(t, NthHead(t, k)) - 1)]]

NotFound == [found |-> FALSE, body |-> <<>>]

\* getSection(text, title): the body of the first section with that title,
\* without the blank lines around it (<<>> is the empty string)
sectionsGet(t, title) ==
    LET secs == parseSections(t)
    IN  IF \E k \in 1..Len(secs) : secs[k].title = title
        THEN LET k == CHOOSE k \in 1..Len(secs) :
                        /\ secs[k].title = title
                        /\ \A j \in 1..(k-1) : secs[j].title # title
             IN  [found |-> TRUE, body |-> TrimBlankLines(secs[k].body)]
        ELSE NotFound

\* the heading line "## title"
createHeading(title) == <<"#", "#", " ">> \o title

\* the first heading line whose title is title, 0 if there is none
FindHeading(t, title) ==
    IF \E i \in Heads(t) : HeadingTitle(t[i]) = title
    THEN CHOOSE i \in Heads(t) :
            /\ HeadingTitle(t[i]) = title
            /\ \A j \in Heads(t) : HeadingTitle(t[j]) = title => i <= j
    ELSE 0

\* upsertInSection that leaves the blank lines of the body where they are
appendToSection_KeepsBlanks(t, title, new, createIfMissing) ==
    LET h == FindHeading(t, title)
    IN  IF h > 0
        THEN LET e == SectionEnd(t, h)
                 b == h + LastNonBlank(SubSeq(t, h + 1, e - 1))
             IN  SubSeq(t, 1, b) \o new \o
                 (IF e <= Len(t) THEN (IF b = e - 1 THEN << <<>> >> ELSE <<>>)
                                      \o SubSeq(t, b + 1, Len(t))
                                 ELSE << <<>> >>)
        ELSE IF createIfMissing
        THEN (IF LastNonBlank(t) = 0 THEN <<>> ELSE trimEndText(t) \o << <<>> >>)
             \o << createHeading(title) >> \o new \o << <<>> >>
        ELSE t

\* upsertInSection(text, title, newLine, createIfMissing); newLine may itself
\* hold several lines
appendToSection(t, title, new, createIfMissing) ==
    LET h == FindHeading(t, title)
    IN  IF h > 0
        THEN LET e == SectionEnd(t, h)
                 b == h + LastNonBlank(SubSeq(t, h + 1, e - 1))
             IN  SubSeq(t, 1, b) \o new \o
                 (IF e <= Len(t) THEN << <<>> >> \o SubSeq(t, e, Len(t))
                                 ELSE << <<>> >>)
        ELSE IF createIfMissing
        THEN (IF LastNonBlank(t) = 0 THEN <<>> ELSE trimEndText(t) \o << <<>> >>)
             \o << createHeading(title) >> \o new \o << <<>> >>
        ELSE t

----------------------------------------------------------------------------
(* LongTermMemory (MEMORY.md) *)

\* the largest file, in lines, that addFact is still called on
MaxFileLines == 13

InitialContent ==
    << <<"#", " ", "Long-Term", " ", "Memory">>, <<>>,
       <<"#", "#", " ", "Preferences">>, <<>>,
       <<"#", "#", " ", "People">>, <<>>,
       <<"#", "#", " ", "Projects">>, <<>>,
       <<"#", "#", " ", "Facts">>, <<>>, <<>> >>

\* a MEMORY.md left by an earlier run, edited by hand
ExistingContent ==
    << <<"#", " ", "Long-Term", " ", "Memory">>, <<>>,
       <<"#", "#", " ", "Preferences">>, <<>>,
       <<"#", "#", " ", "People">>,
       <<"*", " ", "MAX">>, <<>>,
       <<"#", "#", " ", "Projects">>, <<>>,
       <<"#", "#", " ", "Facts">>, <<>>, <<>> >>

NoFile == [exists |-> FALSE, text |-> EmptyText]
FileOf(t) == [exists |-> TRUE, text |-> t]
Null == [set |-> FALSE, text |-> EmptyText]
Cached(t) == [set |-> TRUE, text |-> t]

SectionInputs == { <<"People">>, <<"Pets">> }

FactInputs ==
    { << <<"Dog">> >>,
      << <<" ", "dog", " ">> >>,
      << <<"Max">> >>,
      << <<"Dog">>, <<"Max">> >> }

\* init() that writes the skeleton whether or not the file is there
initState_Overwrites(f, c) ==
    [file |-> FileOf(InitialContent), cache |-> Cached(InitialContent)]

\* init(): writes the skeleton when the file is absent
initState(f, c) ==
    IF f.exists THEN [file |-> f, cache |-> c]
    ELSE [file |-> FileOf(InitialContent), cache |-> Cached(InitialContent)]

\* read() that goes to the file whatever the cache holds
readState_FileFirst(f, c) ==
    IF f.exists THEN [file |-> f, cache |-> Cached(f.text)]
    ELSE initState(f, c)

\* read(): the cache if there is one, else the file, else init()
readState(f, c) ==
    IF c.set THEN [file |-> f, cache |-> c]
    ELSE IF f.exists THEN [file |-> f, cache |-> Cached(f.text)]
    ELSE initState(f, c)

\* what read() returns
readText(f, c) == readState(f, c).cache.text

\* getSection(sectionTitle) on the text that read() returned
getSection(t, sectionTitle) == sectionsGet(t, sectionTitle)

\* fact.trim().toLowerCase()
normalizeFact(fact) ==
    LET u == trimText(fact) IN [i \in 1..Len(u) |-> toLowerCase(u[i])]

\* line.replace(/^\s*[-*+]\s*/, '').trim().toLowerCase()
normalizeBullet(line) == toLowerCase(trim(stripBullet(line)))

\* hasFact comparing without toLowerCase
hasFact_CaseSensitive(t, section, fact) ==
    LET sectionContent == getSection(t, section)
        lines == sectionContent.body
    IN  IF ~sectionContent.found \/ lines = <<>> THEN FALSE
        ELSE \E i \in 1..Len(lines) : << trim(stripBullet(lines[i])) >> = trimText(fact)

\* hasFact(section, fact) on the text that read() returned
hasFact(t, section, fact) ==
    LET sectionContent == getSection(t, section)
        lines == sectionContent.body
        normalizedFact == normalizeFact(fact)
    IN  IF ~sectionContent.found \/ lines = <<>> THEN FALSE
        ELSE \E i \in 1..Len(lines) : << normalizeBullet(lines[i]) >> = normalizedFact

\* `- ${fact}`
bulletPoint(fact) == << <<"-", " ">> \o fact[1] >> \o Tail(fact)

NoArgs(name) ==
    [name |-> name, section |-> <<>>, fact |-> EmptyText, skip |-> FALSE, had |-> FALSE]

\* a bullet line: optional whitespace, a marker, then the text
IsBullet(l) == FirstNonWs(l) <= Len(l) /\ l[FirstNonWs(l)] \in BulletMarkers

\* the lines of the first section titled section that are bullets equal to
\* fact, whitespace trimmed and case ignored
EqualBullets(t, section, fact) ==
    LET h == FindHeading(t, section)
    IN  IF h = 0 THEN {}
        ELSE {i \in (h+1)..(SectionEnd(t, h) - 1) :
                 /\ IsBullet(t[i])
                 /\ << normalizeBullet(t[i]) >> = normalizeFact(fact)}

LtInit ==
    /\ ltFile' = initState(ltFile, ltCache).file
    /\ ltCache' = initState(ltFile, ltCache).cache
    /\ ltOp' = NoArgs("init")
    /\ ltResult' = "void"
    /\ UNCHANGED nonLt

LtRead ==
    /\ ltFile' = readState(ltFile, ltCache).file
    /\ ltCache' = readState(ltFile, ltCache).cache
    /\ ltOp' = NoArgs("read")
    /\ ltResult' = "text"
    /\ UNCHANGED nonLt

ClearCache ==
    /\ ltCache' = Null
    /\ ltOp' = NoArgs("clearCache")
    /\ ltResult' = "void"
    /\ UNCHANGED <<ltFile, nonLt>>

AddFact(section, fact, skipDuplicates) ==
    LET r == readState(ltFile, ltCache)
        content == r.cache.text
        newContent == appendToSection(content, section, bulletPoint(fact), TRUE)
    IN  /\ Len(content) <= MaxFileLines
        /\ UNCHANGED nonLt
        /\ ltOp' = [name |-> "addFact", section |-> section, fact |-> fact,
                    skip |-> skipDuplicates,
                    had |-> EqualBullets(content, section, fact) # {}]
        /\ IF skipDuplicates /\ hasFact(content, section, fact)
           THEN /\ ltFile' = r.file
                /\ ltCache' = r.cache
                /\ ltResult' = "not added"
           ELSE /\ ltFile' = FileOf(newContent)
                /\ ltCache' = Cached(newContent)
                /\ ltResult' = "added"

\* the methods of class LongTermMemory, with one more
LongTermMemoryMethods_WithRemoveFact ==
    {"init", "read", "getSection", "hasFact", "addFact", "addFacts",
     "setSection", "search", "clearCache", "getFilePath", "removeFact"}

\* the methods of class LongTermMemory
LongTermMemoryMethods ==
    {"init", "read", "getSection", "hasFact", "addFact", "addFacts",
     "setSection", "search", "clearCache", "getFilePath"}

\* removeFact as section 4.2 of the specification words it: the text without
\* the first bullet line of the section that equals fact
removeFactLine(t, section, fact) ==
    LET hits == EqualBullets(t, section, fact)
        i == CHOOSE i \in hits : \A j \in hits : i <= j
    IN  SubSeq(t, 1, i - 1) \o SubSeq(t, i + 1, Len(t))

\* a call longTermMemory.removeFact(section, fact): the class defines no such
\* method, so the call fails and nothing runs
RemoveFact(section, fact) ==
    LET r == readState(ltFile, ltCache)
        content == r.cache.text
        hits == EqualBullets(content, section, fact)
    IN  /\ UNCHANGED nonLt
        /\ ltOp' = [name |-> "removeFact", section |-> section, fact |-> fact,
                    skip |-> FALSE, had |-> hits # {}]
        /\ IF "removeFact" \in LongTermMemoryMethods
           THEN IF hits = {}
                THEN /\ ltFile' = r.file
                     /\ ltCache' = r.cache
                     /\ ltResult' = "not found"
                ELSE /\ ltFile' = FileOf(removeFactLine(content, section, fact))
                     /\ ltCache' = Cached(removeFactLine(content, section, fact))
                     /\ ltResult' = "removed"
           ELSE /\ ltResult' = "no such method"
                /\ UNCHANGED <<ltFile, ltCache>>

\* getSection(sectionTitle): read(), then the section of what it returned
GetSection(sectionTitle) ==
    LET r == readState(ltFile, ltCache)
    IN  /\ ltFile' = r.file
        /\ ltCache' = r.cache
        /\ ltOp' = [NoArgs("getSection") EXCEPT !.section = sectionTitle]
        /\ ltResult' = IF getSection(r.cache.text, sectionTitle).found
                        THEN "section" ELSE "not found"
        /\ UNCHANGED nonLt

\* facts.map((f) => `- ${f}`).join('\n'), each fact a single line
bulletPoints(facts) == [i \in 1..Len(facts) |-> <<"-", " ">> \o facts[i]]

\* setSection(): the new text of the file
setSectionText(fileContent, sectionTitle, content) ==
    LET lines == fileContent
        found == \E i \in 1..Len(lines) : sectionPattern(lines[i], sectionTitle)
        sectionStart == CHOOSE i \in 1..Len(lines) :
                            /\ sectionPattern(lines[i], sectionTitle)
                            /\ \A j \in 1..(i-1) : ~sectionPattern(lines[j], sectionTitle)
        sectionEnd ==
            IF \E j \in (sectionStart+1)..Len(lines) : isSectionHeading(lines[j])
            THEN CHOOSE j \in (sectionStart+1)..Len(lines) :
                    /\ isSectionHeading(lines[j])
                    /\ \A k \in (sectionStart+1)..(j-1) : ~isSectionHeading(lines[k])
            ELSE Len(lines) + 1
    IN  IF ~found
        THEN trimEndText(fileContent)
             \o << <<>>, <<"#", "#", " ">> \o sectionTitle >> \o content \o << <<>> >>
        ELSE SubSeq(lines, 1, sectionStart) \o content \o << <<>> >>
             \o SubSeq(lines, sectionEnd, Len(lines))

\* a write of newContent by a call that read r: writeFile, then the cache;
\* if writeFile throws the call ends there, with the file and the cache as
\* the read left them
writeState_CacheFirst(r, newContent, writeOk) ==
    IF writeOk THEN [file |-> FileOf(newContent), cache |-> Cached(newContent)]
    ELSE [file |-> r.file, cache |-> Cached(newContent)]

writeState(r, newContent, writeOk) ==
    IF writeOk THEN [file |-> FileOf(newContent), cache |-> Cached(newContent)]
    ELSE [file |-> r.file, cache |-> r.cache]

\* addFact(section, fact) whose writeFile may throw
AddFactWrite(section, fact, writeOk) ==
    LET r == readState(ltFile, ltCache)
        content == r.cache.text
        w == writeState(r, appendToSection(content, section, bulletPoint(fact), TRUE),
                        writeOk)
    IN  /\ Len(content) <= MaxFileLines
        /\ ltFile' = w.file
        /\ ltCache' = w.cache
        /\ ltOp' = [name |-> "addFact", section |-> section, fact |-> fact,
                    skip |-> FALSE,
                    had |-> EqualBullets(content, section, fact) # {}]
        /\ ltResult' = IF writeOk THEN "added" ELSE "throws"
        /\ UNCHANGED nonLt

AddFacts(section, facts, writeOk) ==
    LET r == readState(ltFile, ltCache)
        content == r.cache.text
        w == writeState(r, appendToSection(content, section, bulletPoints(facts), TRUE),
                        writeOk)
    IN  /\ Len(content) <= MaxFileLines
        /\ ltFile' = w.file
        /\ ltCache' = w.cache
        /\ ltOp' = [NoArgs("addFacts") EXCEPT !.section = section, !.fact = facts]
        /\ ltResult' = IF writeOk THEN "void" ELSE "throws"
        /\ UNCHANGED nonLt

SetSection(sectionTitle, content, writeOk) ==
    LET r == readState(ltFile, ltCache)
        w == writeState(r, setSectionText(r.cache.text, sectionTitle, content), writeOk)
    IN  /\ Len(r.cache.text) <= MaxFileLines
        /\ ltFile' = w.file
        /\ ltCache' = w.cache
        /\ ltOp' = [NoArgs("setSection") EXCEPT !.section = sectionTitle, !.fact = content]
        /\ ltResult' = IF writeOk THEN "void" ELSE "throws"
        /\ UNCHANGED nonLt

\* init() or read() on a path with no file and no way to write one
LtInitWriteFails ==
    /\ ~ltFile.exists
    /\ ltOp' = NoArgs("init")
    /\ ltResult' = "throws"
    /\ UNCHANGED <<ltFile, ltCache, nonLt>>

\* the file is removed from outside, between two calls
Unlink ==
    /\ ltFile.exists
    /\ ltFile' = NoFile
    /\ ltOp' = NoArgs("unlink")
    /\ ltResult' = "void"
    /\ UNCHANGED <<ltCache, nonLt>>

\* a LongTermMemory just constructed, on a path with or without a file
LtInitState ==
    /\ ltFile \in {NoFile, FileOf(ExistingContent)}
    /\ ltCache = Null
    /\ ltOp = NoArgs("new")
    /\ ltResult = "void"

\* no LongTermMemory in use
LtIdle ==
    /\ ltFile = NoFile
    /\ ltCache = Null
    /\ ltOp = NoArgs("new")
    /\ ltResult = "void"

LtNext ==
    \/ LtInit
    \/ LtRead
    \/ ClearCache
    \/ \E s \in SectionInputs, f \in FactInputs, k \in BOOLEAN : AddFact(s, f, k)
    \/ \E s \in SectionInputs, f \in FactInputs : RemoveFact(s, f)


----------------------------------------------------------------------------
(* Transcript (one JSON record per line) *)

\* the most lines the transcript file grows to
MaxTranscriptLines == 6

\* countTokens(text): the encoder, on the texts the model uses
countTokens(text) ==
    CASE text = "hi" -> 1
      [] text = "a long answer" -> 3
      [] text = "{tool,input}" -> 2
      [] text = "ok" -> 1
      [] text = "summary" -> 1
      [] text = "a long summary" -> 2
      [] OTHER -> 0

NullId == "null"
Undefined == "undefined"
UndefinedCount == -1
NoMetadata == [kind |-> "undefined"]

\* the keys of a TranscriptEntry, in the order append() builds the object
EntryKeys ==
    <<"type", "role", "content", "parentId", "metadata", "id", "timestamp", "tokenCount">>

IsUndefined(key, v) ==
    CASE key = "metadata" -> v = NoMetadata
      [] key = "tokenCount" -> v = UndefinedCount
      [] OTHER -> v = Undefined

toJSON(key, v) ==
    CASE key = "tokenCount" -> [t |-> "number", n |-> v]
      [] key = "metadata" -> [t |-> "object", o |-> v]
      [] key = "parentId" /\ v = NullId -> [t |-> "null"]
      [] OTHER -> [t |-> "string", s |-> v]

fromJSON(j) ==
    CASE j.t = "number" -> j.n
      [] j.t = "object" -> j.o
      [] j.t = "null" -> NullId
      [] OTHER -> j.s

\* JSON.stringify(entry) + '\n': the line of the entry as the caller passed
\* it, before id, timestamp and tokenCount were stamped on
JSONstringify_Unstamped(e) ==
    LET keys == <<"type", "content", "parentId">>
    IN  [kind |-> "json",
         members |-> [i \in 1..Len(keys) |->
                         [key |-> keys[i], val |-> toJSON(keys[i], e[keys[i]])]]]

\* JSON.stringify(fullEntry) + '\n': the members in key order, a member whose
\* value is undefined left out
JSONstringify(e) ==
    LET all == [i \in 1..Len(EntryKeys) |->
                   [key |-> EntryKeys[i], defined |-> ~IsUndefined(EntryKeys[i], e[EntryKeys[i]]),
                    val |-> toJSON(EntryKeys[i], e[EntryKeys[i]])]]
        IsDefined(m) == m.defined
        kept == SelectSeq(all, IsDefined)
    IN  [kind |-> "json",
         members |-> [i \in 1..Len(kept) |-> [key |-> kept[i].key, val |-> kept[i].val]]]

Parses(line) == line.kind = "json"

\* JSON.parse(line) as TranscriptEntry: a key the line lacks reads undefined
JSONparse(line) ==
    LET Member(k) == CHOOSE i \in 1..Len(line.members) : line.members[i].key = k
        Has(k) == \E i \in 1..Len(line.members) : line.members[i].key = k
    IN  [k \in {EntryKeys[i] : i \in 1..Len(EntryKeys)} |->
            IF Has(k) THEN fromJSON(line.members[Member(k)].val)
            ELSE IF k = "metadata" THEN NoMetadata
            ELSE IF k = "tokenCount" THEN UndefinedCount
            ELSE Undefined]

GarbageLine == [kind |-> "garbage", members |-> <<>>]
BlankLine == [kind |-> "blank", members |-> <<>>]
\* the beginning of a record, with no line break after it
PartialLine == [kind |-> "partial", members |-> <<>>]

\* entry.tokenCount || 0
tokenCountOr0(e) == IF e.tokenCount = UndefinedCount THEN 0 ELSE e.tokenCount

\* the sum taking every entry for one token
SumTokens_OneEach(es) == Len(es)

RECURSIVE SumTokens(_)
SumTokens(es) == IF es = <<>> THEN 0 ELSE tokenCountOr0(Head(es)) + SumTokens(Tail(es))

\* the loop of load() with the try around the whole loop: the first line
\* that does not parse ends it
RECURSIVE parseLines_StopsAtBadLine(_)
parseLines_StopsAtBadLine(lines) ==
    IF lines = <<>> THEN <<>>
    ELSE IF Head(lines).kind = "blank" THEN parseLines_StopsAtBadLine(Tail(lines))
    ELSE IF Parses(Head(lines))
    THEN << JSONparse(Head(lines)) >> \o parseLines_StopsAtBadLine(Tail(lines))
    ELSE <<>>

\* the loop of load(): the entries of the lines that parse, in file order
RECURSIVE parseLines(_)
parseLines(lines) ==
    IF lines = <<>> THEN <<>>
    ELSE IF Head(lines).kind = "blank" THEN parseLines(Tail(lines))
    ELSE IF Parses(Head(lines)) THEN << JSONparse(Head(lines)) >> \o parseLines(Tail(lines))
    ELSE parseLines(Tail(lines))

NoTranscript == [exists |-> FALSE, lines |-> <<>>]

\* load(): the state [entries, totalTokens, loaded] it leaves
loadState(file, es, total, isLoaded) ==
    IF isLoaded THEN [entries |-> es, totalTokens |-> total, loaded |-> TRUE]
    ELSE IF ~file.exists THEN [entries |-> <<>>, totalTokens |-> 0, loaded |-> TRUE]
    ELSE [entries |-> parseLines(file.lines),
          totalTokens |-> SumTokens(parseLines(file.lines)),
          loaded |-> TRUE]

\* open(filePath, 'w') in place of 'a': the file holds the new line alone
appendLine_Truncating(file, line) == [exists |-> TRUE, lines |-> << line >>]

\* open(filePath, 'a'); write(line): the line goes after what is there
\* handle.write(JSON.stringify(fullEntry) + '\n') on a file opened with 'a':
\* the record goes after the last byte of the file, on the line that a
\* write cut short left open if there is one
appendLine(file, line) ==
    IF file.lines # <<>> /\ file.lines[Len(file.lines)] = PartialLine
    THEN [exists |-> TRUE,
          lines |-> SubSeq(file.lines, 1, Len(file.lines) - 1) \o << GarbageLine >>]
    ELSE [exists |-> TRUE, lines |-> file.lines \o << line >>]

\* how much of the record a write that fails has put in the file
WrittenInputs == {"nothing", "part"}

\* the file after such a write
appendPart(file, written) ==
    IF written = "nothing" THEN file
    ELSE IF file.lines # <<>> /\ file.lines[Len(file.lines)] = PartialLine THEN file
    ELSE [exists |-> TRUE, lines |-> file.lines \o << PartialLine >>]

\* getLastEntryId()
getLastEntryId(es) == IF Len(es) = 0 THEN NullId ELSE es[Len(es)].id

\* getRecentEntries() starting at the first compaction entry
getRecentEntries_FirstCompaction(es) ==
    IF \E i \in 1..Len(es) : es[i].type = "compaction"
    THEN SubSeq(es, CHOOSE i \in 1..Len(es) :
                        /\ es[i].type = "compaction"
                        /\ \A j \in 1..(i-1) : es[j].type # "compaction", Len(es))
    ELSE es

\* getRecentEntries(): from the last compaction entry on, or everything
getRecentEntries(es) ==
    LET lastCompactionIndex ==
            IF \E i \in 1..Len(es) : es[i].type = "compaction"
            THEN CHOOSE i \in 1..Len(es) :
                    /\ es[i].type = "compaction"
                    /\ \A j \in (i+1)..Len(es) : es[j].type # "compaction"
            ELSE 0
    IN  IF lastCompactionIndex = 0 THEN es
        ELSE SubSeq(es, lastCompactionIndex, Len(es))

getTotalTokens == totalTokens

\* getRecentTokens() summing over all the entries
getRecentTokens_AllEntries(es) == SumTokens(es)

getRecentTokens(es) == SumTokens(getRecentEntries(es))

getEntryCount(es) == Len(es)

\* the entry, with the token count of an empty text stamped on
fullEntry_TokensNotCounted(entry, n) ==
    [type |-> entry.type, role |-> entry.role, content |-> entry.content,
     parentId |-> entry.parentId, metadata |-> entry.metadata,
     id |-> ToString(n), timestamp |-> ToString(n),
     tokenCount |-> countTokens("")]

\* the entry append() completes: id, timestamp and token count stamped on
fullEntry(entry, n) ==
    [type |-> entry.type, role |-> entry.role, content |-> entry.content,
     parentId |-> entry.parentId, metadata |-> entry.metadata,
     id |-> ToString(n), timestamp |-> ToString(n),
     tokenCount |-> countTokens(entry.content)]

NoResult ==
    [status |-> "none", summary |-> "", removedEntryCount |-> 0,
     tokensSaved |-> 0, newTotalTokens |-> 0, history |-> <<>>]

TrCall(name) == [name |-> name, summarizer |-> "not called", cut |-> 0, text |-> <<>>]

\* append() without `this.totalTokens += tokenCount`
appendState_TotalNotUpdated(file, es, total, isLoaded, n, entry) ==
    LET l == loadState(file, es, total, isLoaded)
        e == fullEntry(entry, n + 1)
    IN  [file |-> appendLine(file, JSONstringify(e)),
         entries |-> Append(l.entries, e),
         totalTokens |-> l.totalTokens,
         entry |-> e]

\* append(entry): load, stamp, write the line, push, add the tokens
appendState(file, es, total, isLoaded, n, entry) ==
    LET l == loadState(file, es, total, isLoaded)
        e == fullEntry(entry, n + 1)
    IN  [file |-> appendLine(file, JSONstringify(e)),
         entries |-> Append(l.entries, e),
         totalTokens |-> l.totalTokens + e.tokenCount,
         entry |-> e]

\* one call of append, by whichever wrapper
DoAppend(name, entry) ==
    LET a == appendState(trFile, entries, totalTokens, loaded, uuidCount, entry)
    IN  /\ Len(trFile.lines) < MaxTranscriptLines
        /\ UNCHANGED nonTr
        /\ trFile' = a.file
        /\ entries' = a.entries
        /\ totalTokens' = a.totalTokens
        /\ loaded' = TRUE
        /\ uuidCount' = uuidCount + 1
        /\ trOp' = TrCall(name)
        /\ trResult' = NoResult

AddUserMessage(content) ==
    DoAppend("addUserMessage",
             [type |-> "message", role |-> "user", content |-> content,
              parentId |-> getLastEntryId(entries), metadata |-> NoMetadata])

\* addUserMessage(content) whose handle.write throws: the entry is not
\* pushed, and the id drawn for it is dropped with it
AddUserMessageWriteFails(content, written) ==
    LET l == loadState(trFile, entries, totalTokens, loaded)
    IN  /\ Len(trFile.lines) < MaxTranscriptLines
        /\ trFile' = appendPart(trFile, written)
        /\ entries' = l.entries
        /\ totalTokens' = l.totalTokens
        /\ loaded' = TRUE
        /\ uuidCount' = uuidCount
        /\ trOp' = TrCall("addUserMessage")
        /\ trResult' = [NoResult EXCEPT !.status = "error"]
        /\ UNCHANGED nonTr

AddAssistantMessage(content) ==
    DoAppend("addAssistantMessage",
             [type |-> "message", role |-> "assistant", content |-> content,
              parentId |-> getLastEntryId(entries), metadata |-> NoMetadata])

AddToolCall(toolName) ==
    DoAppend("addToolCall",
             [type |-> "tool_call", role |-> Undefined, content |-> "{tool,input}",
              parentId |-> getLastEntryId(entries),
              metadata |-> [kind |-> "tool", toolName |-> toolName]])

AddToolResult(result, parentId) ==
    DoAppend("addToolResult",
             [type |-> "tool_result", role |-> Undefined, content |-> result,
              parentId |-> parentId, metadata |-> NoMetadata])

\* the compaction entry with no record of what it replaces
compactionEntry_IdsDropped(summary, removedEntryIds) ==
    [type |-> "compaction", role |-> Undefined, content |-> summary,
     parentId |-> NullId,
     metadata |-> [kind |-> "compaction", removedEntryIds |-> <<>>, removedCount |-> 0]]

compactionEntry(summary, removedEntryIds) ==
    [type |-> "compaction", role |-> Undefined, content |-> summary,
     parentId |-> NullId,
     metadata |-> [kind |-> "compaction", removedEntryIds |-> removedEntryIds,
                   removedCount |-> Len(removedEntryIds)]]

AddCompaction(summary, removedEntryIds) ==
    DoAppend("addCompaction", compactionEntry(summary, removedEntryIds))

\* init(): an empty file if there is none, then load()
TrInit ==
    LET f == IF trFile.exists THEN trFile ELSE [exists |-> TRUE, lines |-> <<>>]
        l == loadState(f, entries, totalTokens, loaded)
    IN  /\ trFile' = f
        /\ entries' = l.entries
        /\ totalTokens' = l.totalTokens
        /\ loaded' = TRUE
        /\ trOp' = TrCall("init")
        /\ trResult' = NoResult
        /\ UNCHANGED <<uuidCount, nonTr>>

TrLoad ==
    LET l == loadState(trFile, entries, totalTokens, loaded)
    IN  /\ entries' = l.entries
        /\ totalTokens' = l.totalTokens
        /\ loaded' = TRUE
        /\ trOp' = TrCall("load")
        /\ trResult' = NoResult
        /\ UNCHANGED <<trFile, uuidCount, nonTr>>

\* reload(): forget, then load()
Reload ==
    LET l == loadState(trFile, <<>>, 0, FALSE)
    IN  /\ entries' = l.entries
        /\ totalTokens' = l.totalTokens
        /\ loaded' = TRUE
        /\ trOp' = TrCall("reload")
        /\ trResult' = NoResult
        /\ UNCHANGED <<trFile, uuidCount, nonTr>>

\* `[Previous conversation summary]`, the first line of a summary item
SummaryMarker == "[Previous conversation summary]"

\* the history with the summary as it is, no marker before it
historyItems_NoMarker(entry) ==
    IF entry.type = "compaction"
    THEN << [role |-> "assistant", content |-> << entry.content >>] >>
    ELSE IF entry.type = "message" /\ entry.role # Undefined
    THEN << [role |-> entry.role, content |-> << entry.content >>] >>
    ELSE <<>>

\* the body of the loop of buildConversationHistory(): what one entry adds
\* to messages; content is given as its lines
historyItems(entry) ==
    IF entry.type = "compaction"
    THEN << [role |-> "assistant", content |-> << SummaryMarker, entry.content >>] >>
    ELSE IF entry.type = "message" /\ entry.role # Undefined
    THEN << [role |-> entry.role, content |-> << entry.content >>] >>
    ELSE <<>>

RECURSIVE historyOf(_)
historyOf(recent) ==
    IF recent = <<>> THEN <<>>
    ELSE historyItems(Head(recent)) \o historyOf(Tail(recent))

buildConversationHistory(es) == historyOf(getRecentEntries(es))

BuildConversationHistory ==
    /\ trOp' = TrCall("buildConversationHistory")
    /\ trResult' = [NoResult EXCEPT !.status = "history",
                                    !.history = buildConversationHistory(entries)]
    /\ UNCHANGED <<trFile, entries, totalTokens, loaded, uuidCount, nonTr>>

----------------------------------------------------------------------------
(* Compaction (MemoryManager.compact) *)

\* compact() does nothing on fewer recent entries than this
MinCompactEntries == 5

\* the configured keepRecentTokens, on the model's scale of token counts
KeepRecentTokens == 3

\* the configured budgets, on the model's scale of token counts
ConfigInputs ==
    {[contextWindow |-> cw, reserveTokens |-> 2, softThresholdTokens |-> st] :
        cw \in {8, 10}, st \in {2, 4}}

\* contextWindow - reserveTokens - softThresholdTokens
threshold(config) ==
    config.contextWindow - config.reserveTokens - config.softThresholdTokens

\* needsMemoryFlush(): the recent tokens have come up to the threshold
needsMemoryFlush(es, config) == getRecentTokens(es) >= threshold(config)

\* needsCompaction(): the same comparison
needsCompaction(es, config) == getRecentTokens(es) >= threshold(config)

SummaryInputs == {"summary", "a long summary"}

SummarizerFails == "summarizer throws"

\* step 2 stopping at the entry that brings the sum up to keepRecentTokens
RECURSIVE walkBack_AtBudget(_, _, _)
walkBack_AtBudget(recent, i, acc) ==
    IF i = 0 THEN 0
    ELSE IF acc + tokenCountOr0(recent[i]) >= KeepRecentTokens THEN i
    ELSE walkBack_AtBudget(recent, i - 1, acc + tokenCountOr0(recent[i]))

\* step 2: walking from the newest entry to the oldest, the position (from 1)
\* of the entry whose tokens would take the sum over keepRecentTokens, 0 if
\* none does.  Counted from 0 this is the cut point: the index right after it.
RECURSIVE walkBack(_, _, _)
walkBack(recent, i, acc) ==
    IF i = 0 THEN 0
    ELSE IF acc + tokenCountOr0(recent[i]) > KeepRecentTokens THEN i
    ELSE walkBack(recent, i - 1, acc + tokenCountOr0(recent[i]))

cutPoint(recent) == walkBack(recent, Len(recent), 0)

IdsOf(es) == [i \in 1..Len(es) |-> es[i].id]

\* step 4 taking every entry, whatever its kind
RECURSIVE summarizerText_EveryKind(_)
summarizerText_EveryKind(toSummarize) ==
    IF toSummarize = <<>> THEN <<>>
    ELSE LET rest == summarizerText_EveryKind(Tail(toSummarize))
             e == Head(toSummarize)
         IN  << <<e.role, ":", " ", e.content>> >>
             \o (IF rest = <<>> THEN <<>> ELSE << <<>> >> \o rest)

\* step 4: the text for the summarizer, as its lines: one line, the role
\* before the content, for each message entry, a blank line between two
RECURSIVE summarizerText(_)
summarizerText(toSummarize) ==
    IF toSummarize = <<>> THEN <<>>
    ELSE LET rest == summarizerText(Tail(toSummarize))
             e == Head(toSummarize)
         IN  IF e.type # "message" THEN rest
             ELSE << <<e.role, ":", " ", e.content>> >>
                  \o (IF rest = <<>> THEN <<>> ELSE << <<>> >> \o rest)

\* compact() that turns a summarizer failure into a compaction with no text
compactOutcome_SwallowsFailure(es, outcome) ==
    LET recent == getRecentEntries(es)
        cut == cutPoint(recent)
    IN  IF Len(recent) < MinCompactEntries \/ cut <= 1
        THEN [status |-> "nothing to do", summarizer |-> "not called", cut |-> cut]
        ELSE [status |-> "ok", cut |-> cut,
              summarizer |-> IF outcome = SummarizerFails THEN "threw" ELSE "returned"]

\* compact() that goes on when one entry only is to be summarized
compactOutcome_SummarizesOne(es, outcome) ==
    LET recent == getRecentEntries(es)
        cut == cutPoint(recent)
    IN  IF Len(recent) < MinCompactEntries
        THEN [status |-> "nothing to do", summarizer |-> "not called", cut |-> 0]
        ELSE IF cut < 1
        THEN [status |-> "nothing to do", summarizer |-> "not called", cut |-> cut]
        ELSE IF outcome = SummarizerFails
        THEN [status |-> "error", summarizer |-> "threw", cut |-> cut]
        ELSE [status |-> "ok", summarizer |-> "returned", cut |-> cut]

\* steps 1 to 4 of compact(): what the call comes to
compactOutcome(es, outcome) ==
    LET recent == getRecentEntries(es)
        cut == cutPoint(recent)
    IN  IF Len(recent) < MinCompactEntries
        THEN [status |-> "nothing to do", summarizer |-> "not called", cut |-> 0]
        ELSE IF cut <= 1
        THEN [status |-> "nothing to do", summarizer |-> "not called", cut |-> cut]
        ELSE IF outcome = SummarizerFails
        THEN [status |-> "error", summarizer |-> "threw", cut |-> cut]
        ELSE [status |-> "ok", summarizer |-> "returned", cut |-> cut]

\* compact(transcript, summarizer); outcome is what the summarizer does if
\* it is called
Compact(outcome) ==
    LET recent == getRecentEntries(entries)
        o == compactOutcome(entries, outcome)
        summary == IF outcome = SummarizerFails THEN "" ELSE outcome
        toSummarize == SubSeq(recent, 1, o.cut)
        kept == SubSeq(recent, o.cut + 1, Len(recent))
        a == appendState(trFile, entries, totalTokens, loaded, uuidCount,
                         compactionEntry(summary, IdsOf(toSummarize)))
    IN  /\ UNCHANGED nonTr
        /\ trOp' = [name |-> "compact", summarizer |-> o.summarizer, cut |-> o.cut,
                    text |-> IF o.summarizer = "not called" THEN <<>>
                             ELSE summarizerText(toSummarize)]
        /\ IF o.status = "ok"
           THEN /\ Len(trFile.lines) < MaxTranscriptLines
                /\ trFile' = a.file
                /\ entries' = a.entries
                /\ totalTokens' = a.totalTokens
                /\ loaded' = TRUE
                /\ uuidCount' = uuidCount + 1
                /\ trResult' =
                     [status |-> "ok", summary |-> summary,
                      removedEntryCount |-> Len(toSummarize),
                      tokensSaved |-> SumTokens(recent) - SumTokens(kept)
                                        - countTokens(summary),
                      newTotalTokens |-> getRecentTokens(a.entries),
                      history |-> <<>>]
           ELSE /\ trResult' = [NoResult EXCEPT !.status = o.status]
                /\ UNCHANGED <<trFile, entries, totalTokens, loaded, uuidCount>>

\* a transcript written by an earlier run, one line of it damaged and one
\* left blank
ExistingTranscript ==
    [exists |-> TRUE,
     lines |-> << JSONstringify([type |-> "message", role |-> "user", content |-> "hi",
                                 parentId |-> NullId, metadata |-> NoMetadata,
                                 id |-> "old-1", timestamp |-> "old", tokenCount |-> 1]),
                  GarbageLine,
                  BlankLine,
                  JSONstringify([type |-> "message", role |-> "assistant",
                                 content |-> "a long answer", parentId |-> "old-1",
                                 metadata |-> NoMetadata, id |-> "old-2",
                                 timestamp |-> "old", tokenCount |-> 3]) >>]

\* a Transcript just constructed, on a path with or without a file
TrInitState ==
    /\ trFile \in {NoTranscript, ExistingTranscript}
    /\ entries = <<>>
    /\ totalTokens = 0
    /\ loaded = FALSE
    /\ uuidCount = 0
    /\ trOp = TrCall("new")
    /\ trResult = NoResult

\* no Transcript in use
TrIdle ==
    /\ trFile = NoTranscript
    /\ entries = <<>>
    /\ totalTokens = 0
    /\ loaded = FALSE
    /\ uuidCount = 0
    /\ trOp = TrCall("new")
    /\ trResult = NoResult

TrNext ==
    \/ TrInit
    \/ TrLoad
    \/ Reload
    \/ AddUserMessage("hi")
    \/ AddAssistantMessage("a long answer")
    \/ AddToolCall("search")
    \/ (/\ entries # <<>>
        /\ entries[Len(entries)].type = "tool_call"
        /\ AddToolResult("ok", getLastEntryId(entries)))
    \/ AddCompaction("summary", IdsOf(getRecentEntries(entries)))
    \/ \E outcome \in SummaryInputs \cup {SummarizerFails} : Compact(outcome)

\* compaction of a transcript of messages long, short and empty
CompactNext ==
    \/ \E content \in {"hi", ""} : AddUserMessage(content)
    \/ AddAssistantMessage("a long answer")
    \/ AddToolCall("search")
    \/ AddCompaction("summary", IdsOf(getRecentEntries(entries)))
    \/ \E outcome \in SummaryInputs \cup {SummarizerFails} : Compact(outcome)

\* the conversation history, built as the transcript grows
HistoryNext ==
    \/ TrLoad
    \/ AddUserMessage("hi")
    \/ AddAssistantMessage("a long answer")
    \/ AddToolCall("search")
    \/ AddCompaction("summary", IdsOf(getRecentEntries(entries)))
    \/ BuildConversationHistory

----------------------------------------------------------------------------
(* DailyNotes (memory/YYYY-MM-DD.md) *)

\* the most entries the daily files hold, all dates together
MaxDailyEntries == 3

\* the dates of the model, oldest first, as formatDate prints them
DateInputs == <<"2026-11-05", "2026-11-06">>

Dates == {DateInputs[i] : i \in 1..Len(DateInputs)}

\* the local date and time of day at the successive readings of the clock,
\* as formatDate and formatTime print them
ClockValues ==
    << [date |-> "2026-11-05", time |-> "09:00"],
       [date |-> "2026-11-05", time |-> "23:59"],
       [date |-> "2026-11-06", time |-> "00:00"] >>

formatDate(clock) == ClockValues[clock].date

formatTime(clock) == ClockValues[clock].time

ContentInputs == { <<"Shipped", " ", "v1">>, <<"note", " ">> }

SessionNotes == <<"Session", " ", "Notes">>

DecisionsMade == <<"Decisions", " ", "Made">>

\* createInitialContent(date)
createInitialContent(dateStr) ==
    << <<"#", " ", dateStr>>, <<>>,
       <<"#", "#", " ">> \o SessionNotes, <<>>,
       <<"#", "#", " ">> \o DecisionsMade, <<>>,
       <<"#", "#", " ", "Ideas">>, <<>>,
       <<"#", "#", " ", "Tasks">>, <<>>, <<>> >>

NoDirectory == [exists |-> FALSE, files |-> [d \in Dates |-> NoFile]]

\* init(): mkdir
dnInitState(dir) == [dir EXCEPT !.exists = TRUE]

\* readDate() that answers a missing file with the text of a new one
readDate_NewFile(dir, dateStr) ==
    IF dir.exists /\ dir.files[dateStr].exists THEN dir.files[dateStr].text
    ELSE createInitialContent(dateStr)

\* readDate(date): the text of the file, the empty string if there is none
readDate(dir, dateStr) ==
    IF dir.exists /\ dir.files[dateStr].exists THEN dir.files[dateStr].text ELSE EmptyText

\* ensureToday(): the directory it leaves and the text it returns
ensureToday(dir, dateStr) ==
    IF dir.exists /\ dir.files[dateStr].exists
    THEN [dir |-> dir, content |-> dir.files[dateStr].text]
    ELSE [dir |-> [dnInitState(dir) EXCEPT
                      !.files[dateStr] = FileOf(createInitialContent(dateStr))],
          content |-> createInitialContent(dateStr)]

\* `- [${timestamp}] ${content}`
entryLine(timestamp, content) == <<"-", " ", "[", timestamp, "]", " ">> \o content

\* addEntry inserting at the end of the file
addEntryText_AtEnd(fileContent, entry, section) ==
    LET present == \E i \in 1..Len(fileContent) : sectionPattern(fileContent[i], section)
        lines == IF present THEN fileContent
                 ELSE trimEndText(fileContent)
                      \o << <<>>, <<"#", "#", " ">> \o section, <<>> >>
    IN  SubSeq(lines, 1, LastNonBlank(lines)) \o << entry >>
        \o SubSeq(lines, LastNonBlank(lines) + 1, Len(lines))

\* addEntry(): the new text of today's file.  insertIndex counts lines from
\* 1: the entry goes before the line at insertIndex.
addEntryText(fileContent, entry, section) ==
    LET present == \E i \in 1..Len(fileContent) : sectionPattern(fileContent[i], section)
        lines == IF present THEN fileContent
                 ELSE trimEndText(fileContent)
                      \o << <<>>, <<"#", "#", " ">> \o section, <<>> >>
        sectionIndex == CHOOSE i \in 1..Len(lines) :
                            /\ sectionPattern(lines[i], section)
                            /\ \A j \in 1..(i-1) : ~sectionPattern(lines[j], section)
        nextSection ==
            IF \E j \in (sectionIndex+1)..Len(lines) : isSectionHeading(lines[j])
            THEN CHOOSE j \in (sectionIndex+1)..Len(lines) :
                    /\ isSectionHeading(lines[j])
                    /\ \A k \in (sectionIndex+1)..(j-1) : ~isSectionHeading(lines[k])
            ELSE Len(lines) + 1
        insertIndex == LastNonBlank(SubSeq(lines, 1, nextSection - 1)) + 1
    IN  SubSeq(lines, 1, insertIndex - 1) \o << entry >>
        \o SubSeq(lines, insertIndex, Len(lines))

DnCall(name) == [name |-> name, content |-> <<>>, section |-> <<>>, date |-> ""]

DnVoid == [kind |-> "void", text |-> EmptyText, dates |-> <<>>]

\* the entry lines of all the files together
EntryCount(dir) ==
    LET n(d) == Cardinality({i \in 1..Len(dir.files[d].text) :
                                IsBullet(dir.files[d].text[i])})
    IN  n(DateInputs[1]) + n(DateInputs[2])

DnInit ==
    /\ dnDir' = dnInitState(dnDir)
    /\ dnOp' = DnCall("init")
    /\ dnResult' = DnVoid
    /\ UNCHANGED <<dnClock, ltVars, trVars, ssVars, callVars>>

\* addEntry(content, section), under the name of the wrapper that made it
DoAddEntry(name, content, section) ==
    LET dateStr == formatDate(dnClock)
        e == ensureToday(dnDir, dateStr)
        newContent == addEntryText(e.content, entryLine(formatTime(dnClock), content),
                                   section)
    IN  /\ EntryCount(dnDir) < MaxDailyEntries
        /\ dnDir' = [e.dir EXCEPT !.files[dateStr] = FileOf(newContent)]
        /\ dnOp' = [name |-> name, content |-> content, section |-> section,
                    date |-> dateStr]
        /\ dnResult' = DnVoid
        /\ UNCHANGED <<dnClock, ltVars, trVars, ssVars, callVars>>

AddEntry(content, section) == DoAddEntry("addEntry", content, section)

\* the lines of the new content that a writeFile cut short has written
CutInputs == {0, 4}

\* addEntry(content, section) whose writeFile is cut short: the file was
\* opened with 'w', which empties it, and holds what was written since
AddEntryCutShort(content, section, n) ==
    LET dateStr == formatDate(dnClock)
        e == ensureToday(dnDir, dateStr)
        newContent == addEntryText(e.content, entryLine(formatTime(dnClock), content),
                                   section)
        written == IF n = 0 THEN EmptyText ELSE SubSeq(newContent, 1, n)
    IN  /\ EntryCount(dnDir) < MaxDailyEntries
        /\ n < Len(newContent)
        /\ dnDir' = [e.dir EXCEPT !.files[dateStr] = FileOf(written)]
        /\ dnOp' = [name |-> "addEntry", content |-> content, section |-> section,
                    date |-> dateStr]
        /\ dnResult' = [DnVoid EXCEPT !.kind = "throws"]
        /\ UNCHANGED <<dnClock, ltVars, trVars, ssVars, callVars>>

AddDecision(decision) == DoAddEntry("addDecision", decision, DecisionsMade)

AddIdea(idea) == DoAddEntry("addIdea", idea, <<"Ideas">>)

AddTask(task) == DoAddEntry("addTask", task, <<"Tasks">>)

ReadDate(dateStr) ==
    /\ dnOp' = [DnCall("readDate") EXCEPT !.date = dateStr]
    /\ dnResult' = [DnVoid EXCEPT !.kind = "text", !.text = readDate(dnDir, dateStr)]
    /\ UNCHANGED <<dnDir, dnClock, ltVars, trVars, ssVars, callVars>>

\* listDates(): the dates that have a file, most recent first
listDates(dir) ==
    LET IsThere(d) == dir.exists /\ dir.files[d].exists
        asc == SelectSeq(DateInputs, IsThere)
    IN  [i \in 1..Len(asc) |-> asc[Len(asc) + 1 - i]]

ListDates ==
    /\ dnOp' = DnCall("listDates")
    /\ dnResult' = [DnVoid EXCEPT !.kind = "dates", !.dates = listDates(dnDir)]
    /\ UNCHANGED <<dnDir, dnClock, ltVars, trVars, ssVars, callVars>>

\* time passes
Tick ==
    /\ dnClock < Len(ClockValues)
    /\ dnClock' = dnClock + 1
    /\ UNCHANGED <<dnDir, dnOp, dnResult, ltVars, trVars, ssVars, callVars>>

\* a DailyNotes just constructed, on a directory that is not there yet
DnInitState ==
    /\ dnDir = NoDirectory
    /\ dnClock = 1
    /\ dnOp = DnCall("new")
    /\ dnResult = DnVoid

DnIdle == DnInitState

DnNext ==
    \/ DnInit
    \/ Tick
    \/ \E c \in ContentInputs, s \in {SessionNotes, <<"Pets">>} : AddEntry(c, s)
    \/ AddDecision(<<"Shipped", " ", "v1">>)
    \/ AddIdea(<<"Shipped", " ", "v1">>)
    \/ AddTask(<<"note", " ">>)

----------------------------------------------------------------------------
(* SessionStore (agents/<agentId>/sessions.json) *)

\* the most ids and timestamps handed out to sessions and their entries
MaxIds == 4

NoSession == "none"

UnknownSession == "no-such-session"

OldSession == "old-session"

\* the index file as save() writes it and load() reads it back
SessionsFileOf(ss) == [exists |-> TRUE, parses |-> TRUE, sessions |-> ss]

NoSessionsFile == [exists |-> FALSE, parses |-> FALSE, sessions |-> <<>>]

\* load(): the sessions in memory afterwards
ssLoadState(file, ss, isLoaded) ==
    IF isLoaded THEN ss
    ELSE IF ~file.exists THEN <<>>
    ELSE IF file.parses THEN file.sessions
    ELSE <<>>

\* sessions.findIndex((s) => s.sessionId === sessionId), from 1; 0 is -1
findIndex(ss, sessionId) ==
    IF \E i \in 1..Len(ss) : ss[i].sessionId = sessionId
    THEN CHOOSE i \in 1..Len(ss) :
            /\ ss[i].sessionId = sessionId
            /\ \A j \in 1..(i-1) : ss[j].sessionId # sessionId
    ELSE 0

\* the metadata createSession() builds
newMetadata(sessionId, now) ==
    [sessionId |-> sessionId, agentId |-> "agent", createdAt |-> now, updatedAt |-> now,
     totalTokens |-> 0, entryCount |-> 0, compactionCount |-> 0]

IsCompaction(e) == e.type = "compaction"

getCompactionCount(es) == Len(SelectSeq(es, IsCompaction))

\* { ...this.sessions[index], ...updates, updatedAt }
mergeUpdates(metadata, updates, now) ==
    [metadata EXCEPT !.totalTokens = updates.totalTokens,
                     !.entryCount = updates.entryCount,
                     !.compactionCount = updates.compactionCount,
                     !.updatedAt = now]

\* updateSession() that saves nothing
updateState_NotSaved(file, ss, isLoaded, sessionId, updates, now) ==
    LET l == ssLoadState(file, ss, isLoaded)
        index == findIndex(l, sessionId)
    IN  IF index = 0 THEN [file |-> file, sessions |-> l]
        ELSE [file |-> file,
              sessions |-> [l EXCEPT ![index] = mergeUpdates(l[index], updates, now)]]

\* updateSession(sessionId, updates): the file and the sessions it leaves
updateState(file, ss, isLoaded, sessionId, updates, now) ==
    LET l == ssLoadState(file, ss, isLoaded)
        index == findIndex(l, sessionId)
        merged == [l EXCEPT ![index] = mergeUpdates(l[index], updates, now)]
    IN  IF index = 0 THEN [file |-> file, sessions |-> l]
        ELSE [file |-> SessionsFileOf(merged), sessions |-> merged]

\* what syncFromTranscript() passes to updateSession()
syncUpdates(es, total) ==
    [totalTokens |-> total, entryCount |-> getEntryCount(es),
     compactionCount |-> getCompactionCount(es)]

\* the transcript file of a session: getTranscriptPath(sessionId)
TranscriptFileOf(sessionId) ==
    IF sessionId = current THEN trFile
    ELSE IF \E q \in parked : q.id = sessionId
    THEN (CHOOSE q \in parked : q.id = sessionId).file
    ELSE NoTranscript

\* the files of the sessions other than sessionId, once its transcript is open
parkedWithout(sessionId) ==
    {q \in parked : q.id # sessionId}
    \cup (IF current \in {NoSession, sessionId} THEN {}
          ELSE {[id |-> current, file |-> trFile]})

SsCall(name, sessionId) == [name |-> name, sessionId |-> sessionId]

\* the clock, as toISOString prints it
isoNow == ToString(uuidCount)

SsInit ==
    /\ sessions' = ssLoadState(ssFile, sessions, ssLoaded)
    /\ ssLoaded' = TRUE
    /\ ssOp' = SsCall("init", NoSession)
    /\ ssResult' = "void"
    /\ UNCHANGED <<ssFile, current, parked, ltVars, trVars, dnVars, callVars>>

\* createSession(): a new record in the index, and its transcript opened
CreateSession ==
    LET sessionId == ToString(uuidCount + 1)
        l == ssLoadState(ssFile, sessions, ssLoaded)
        pushed == Append(l, newMetadata(sessionId, ToString(uuidCount + 1)))
    IN  /\ uuidCount < MaxIds
        /\ uuidCount' = uuidCount + 1
        /\ sessions' = pushed
        /\ ssFile' = SessionsFileOf(pushed)
        /\ ssLoaded' = TRUE
        /\ parked' = parkedWithout(sessionId)
        /\ current' = sessionId
        /\ trFile' = [exists |-> TRUE, lines |-> <<>>]
        /\ entries' = <<>>
        /\ totalTokens' = 0
        /\ loaded' = TRUE
        /\ trOp' = TrCall("init")
        /\ trResult' = NoResult
        /\ ssOp' = SsCall("createSession", sessionId)
        /\ ssResult' = "session"
        /\ UNCHANGED <<ltVars, dnVars, callVars>>

\* loadSession(sessionId): null, or the session's transcript, loaded
LoadSession(sessionId) ==
    LET l == ssLoadState(ssFile, sessions, ssLoaded)
        f == TranscriptFileOf(sessionId)
        t == loadState(f, <<>>, 0, FALSE)
    IN  /\ sessions' = l
        /\ ssLoaded' = TRUE
        /\ ssOp' = SsCall("loadSession", sessionId)
        /\ UNCHANGED <<ssFile, uuidCount, ltVars, dnVars, callVars>>
        /\ IF findIndex(l, sessionId) = 0
           THEN /\ ssResult' = "null"
                /\ UNCHANGED <<current, parked, trFile, entries, totalTokens, loaded,
                               trOp, trResult>>
           ELSE /\ ssResult' = "transcript"
                /\ parked' = parkedWithout(sessionId)
                /\ current' = sessionId
                /\ trFile' = f
                /\ entries' = t.entries
                /\ totalTokens' = t.totalTokens
                /\ loaded' = TRUE
                /\ trOp' = TrCall("load")
                /\ trResult' = NoResult

UpdateSession(sessionId, updates) ==
    LET u == updateState(ssFile, sessions, ssLoaded, sessionId, updates, isoNow)
    IN  /\ ssFile' = u.file
        /\ sessions' = u.sessions
        /\ ssLoaded' = TRUE
        /\ ssOp' = SsCall("updateSession", sessionId)
        /\ ssResult' = "void"
        /\ UNCHANGED <<current, parked, ltVars, trVars, dnVars, callVars>>

\* deleteSession() that splices the record out of memory and saves nothing
DeleteSession_NotSaved(sessionId) ==
    LET l == ssLoadState(ssFile, sessions, ssLoaded)
        index == findIndex(l, sessionId)
        spliced == SubSeq(l, 1, index - 1) \o SubSeq(l, index + 1, Len(l))
    IN  /\ ssLoaded' = TRUE
        /\ ssOp' = SsCall("deleteSession", sessionId)
        /\ UNCHANGED <<ssFile, current, parked, ltVars, trVars, dnVars, callVars>>
        /\ IF index = 0
           THEN /\ sessions' = l
                /\ ssResult' = "false"
           ELSE /\ sessions' = spliced
                /\ ssResult' = "true"

\* deleteSession(sessionId): false, or the record spliced out and the index saved
DeleteSession(sessionId) ==
    LET l == ssLoadState(ssFile, sessions, ssLoaded)
        index == findIndex(l, sessionId)
        spliced == SubSeq(l, 1, index - 1) \o SubSeq(l, index + 1, Len(l))
    IN  /\ ssLoaded' = TRUE
        /\ ssOp' = SsCall("deleteSession", sessionId)
        /\ UNCHANGED <<current, parked, ltVars, trVars, dnVars, callVars>>
        /\ IF index = 0
           THEN /\ sessions' = l
                /\ ssResult' = "false"
                /\ UNCHANGED ssFile
           ELSE /\ sessions' = spliced
                /\ ssFile' = SessionsFileOf(spliced)
                /\ ssResult' = "true"

\* a mutation of the open session's transcript: the entry is appended, then
\* syncFromTranscript(current, transcript) brings the index up to date
SessionAppend(name, entry) ==
    LET a == appendState(trFile, entries, totalTokens, loaded, uuidCount, entry)
        u == updateState(ssFile, sessions, ssLoaded, current,
                         syncUpdates(a.entries, a.totalTokens),
                         ToString(uuidCount + 1))
    IN  /\ current # NoSession
        /\ uuidCount < MaxIds
        /\ trFile' = a.file
        /\ entries' = a.entries
        /\ totalTokens' = a.totalTokens
        /\ loaded' = TRUE
        /\ uuidCount' = uuidCount + 1
        /\ trOp' = TrCall(name)
        /\ trResult' = NoResult
        /\ ssFile' = u.file
        /\ sessions' = u.sessions
        /\ ssLoaded' = TRUE
        /\ ssOp' = SsCall("syncFromTranscript", current)
        /\ ssResult' = "void"
        /\ UNCHANGED <<current, parked, ltVars, dnVars, callVars>>

\* the index an earlier run left: one session, its transcript beside it
OldSessions ==
    << [sessionId |-> OldSession, agentId |-> "agent", createdAt |-> "old",
        updatedAt |-> "old", totalTokens |-> 4, entryCount |-> 2,
        compactionCount |-> 0] >>

\* a sessions.json that does not parse
DamagedSessionsFile == [exists |-> TRUE, parses |-> FALSE, sessions |-> <<>>]

\* a SessionStore just constructed; the agent's directory is there, with or
\* without an index in it
SsInitState ==
    /\ ssFile \in {NoSessionsFile, SessionsFileOf(OldSessions), DamagedSessionsFile}
    /\ sessions = <<>>
    /\ ssLoaded = FALSE
    /\ current = NoSession
    /\ parked = IF ssFile = SessionsFileOf(OldSessions)
                THEN {[id |-> OldSession, file |-> ExistingTranscript]}
                ELSE {}
    /\ ssOp = SsCall("new", NoSession)
    /\ ssResult = "void"

\* no SessionStore in use
SsIdle ==
    /\ ssFile = NoSessionsFile
    /\ sessions = <<>>
    /\ ssLoaded = FALSE
    /\ current = NoSession
    /\ parked = {}
    /\ ssOp = SsCall("new", NoSession)
    /\ ssResult = "void"

UpdateInputs == {[totalTokens |-> 0, entryCount |-> 0, compactionCount |-> 0]}

\* the ids a caller may hold: of the sessions in the index, and one of none
KnownIds == {ssFile.sessions[i].sessionId : i \in 1..Len(ssFile.sessions)}
            \cup {sessions[i].sessionId : i \in 1..Len(sessions)}

SsNext ==
    \/ SsInit
    \/ CreateSession
    \/ \E id \in KnownIds : LoadSession(id) \/ DeleteSession(id)
    \/ SessionAppend("addUserMessage",
                     [type |-> "message", role |-> "user", content |-> "hi",
                      parentId |-> getLastEntryId(entries), metadata |-> NoMetadata])
    \/ SessionAppend("addCompaction",
                     compactionEntry("summary", IdsOf(getRecentEntries(entries))))

----------------------------------------------------------------------------
(* search(pattern) of LongTermMemory and of DailyNotes *)

\* the patterns searched for: one word, in lower case
PatternInputs == {"max", "shipped"}

\* the offset in the line, from 0, of its i-th part, a word counting for as
\* many characters as it has letters
RECURSIVE offsetOf(_, _)
offsetOf(l, i) == IF i <= 1 THEN 0 ELSE offsetOf(l, i - 1) + Len(l[i - 1])

\* the pattern matches the i-th part of the line, case ignored (flag i)
matchesAt(l, i, pattern) == toLowerCaseChar(l[i]) = pattern

\* regex.test(line) of a RegExp made with the flag g: the search starts at
\* lastIndex; a match leaves lastIndex at its end, a failure leaves it at 0
regexTest(l, pattern, lastIndex) ==
    LET hits == {i \in 1..Len(l) : matchesAt(l, i, pattern) /\ offsetOf(l, i) >= lastIndex}
    IN  IF hits = {} THEN [found |-> FALSE, lastIndex |-> 0]
        ELSE LET i == CHOOSE i \in hits : \A j \in hits : i <= j
             IN  [found |-> TRUE, lastIndex |-> offsetOf(l, i) + Len(l[i])]

\* lines.filter((line) => regex.test(line)): the one RegExp object tests
\* every line, and keeps its lastIndex from one line to the next
RECURSIVE filterLines(_, _, _)
filterLines(lines, pattern, lastIndex) ==
    IF lines = <<>> THEN [lines |-> <<>>, lastIndex |-> lastIndex]
    ELSE LET t == regexTest(Head(lines), pattern, lastIndex)
             rest == filterLines(Tail(lines), pattern, t.lastIndex)
         IN  [lines |-> (IF t.found THEN << Head(lines) >> ELSE <<>>) \o rest.lines,
              lastIndex |-> rest.lastIndex]

SrCall(store, pattern) == [store |-> store, pattern |-> pattern]

\* LongTermMemory.search(pattern)
LtSearch(pattern) ==
    LET r == readState(ltFile, ltCache)
        found == filterLines(r.cache.text, pattern, 0).lines
    IN  /\ ltFile' = r.file
        /\ ltCache' = r.cache
        /\ ltOp' = NoArgs("search")
        /\ ltResult' = "lines"
        /\ srOp' = SrCall("LongTermMemory", pattern)
        /\ srResult' = [i \in 1..Len(found) |-> [date |-> "", line |-> found[i]]]
        /\ UNCHANGED <<trVars, dnVars, ssVars, rwVars>>

\* the loop of DailyNotes.search over the dates: the RegExp is made once,
\* before the loop
RECURSIVE searchDates(_, _, _, _)
searchDates(dir, dates, pattern, lastIndex) ==
    IF dates = <<>> THEN <<>>
    ELSE LET f == filterLines(readDate(dir, Head(dates)), pattern, lastIndex)
         IN  [i \in 1..Len(f.lines) |-> [date |-> Head(dates), line |-> f.lines[i]]]
             \o searchDates(dir, Tail(dates), pattern, f.lastIndex)

\* DailyNotes.search(pattern)
DnSearch(pattern) ==
    /\ dnOp' = DnCall("search")
    /\ dnResult' = [DnVoid EXCEPT !.kind = "pairs"]
    /\ srOp' = SrCall("DailyNotes", pattern)
    /\ srResult' = searchDates(dnDir, listDates(dnDir), pattern, 0)
    /\ UNCHANGED <<dnDir, dnClock, ltVars, trVars, ssVars, rwVars>>

\* the facts and the notes searched
SearchNext ==
    \/ \E s \in SectionInputs : AddFactWrite(s, << <<"Max">> >>, TRUE)
    \/ \E p \in PatternInputs : LtSearch(p)
    \/ Tick
    \/ AddEntry(<<"Shipped", " ", "v1">>, SessionNotes)
    \/ AddIdea(<<"Shipped", " ", "v1">>)
    \/ \E p \in PatternInputs : DnSearch(p)

----------------------------------------------------------------------------
(* Two callers of addFact, and two of addEntry, on the one instance *)

Writers == {1, 2}

\* what each caller adds
WriterFacts == << << <<"Dog">> >>, << <<"Max">> >> >>

WriterNotes == << <<"Shipped", " ", "v1">>, <<"Fixed", " ", "it">> >>

NotCalled == [pc |-> "idle", content |-> EmptyText, time |-> ""]

RwEvent(store, w, kind) == [store |-> store, writer |-> w, kind |-> kind]

\* addFact up to `const content = await this.read()`
BeginAddFact(w) ==
    LET r == readState(ltFile, ltCache)
    IN  /\ pending.lt[w].pc = "idle"
        /\ ltFile' = r.file
        /\ ltCache' = r.cache
        /\ pending' = [pending EXCEPT !.lt[w] = [pc |-> "read", content |-> r.cache.text,
                                                 time |-> ""]]
        /\ rwLog' = Append(rwLog, RwEvent("lt", w, "read"))
        /\ UNCHANGED <<ltOp, ltResult, trVars, dnVars, ssVars, srVars>>

\* the rest of addFact working on the text as it is when it writes
FinishAddFact_ReadsAgain(w) ==
    LET content == readState(ltFile, ltCache).cache.text
        newContent == appendToSection(content, <<"People">>,
                                      bulletPoint(WriterFacts[w]), TRUE)
    IN  /\ pending.lt[w].pc = "read"
        /\ ltFile' = FileOf(newContent)
        /\ ltCache' = Cached(newContent)
        /\ ltOp' = [name |-> "addFact", section |-> <<"People">>, fact |-> WriterFacts[w],
                    skip |-> FALSE, had |-> FALSE]
        /\ ltResult' = "added"
        /\ pending' = [pending EXCEPT !.lt[w].pc = "done"]
        /\ rwLog' = Append(rwLog, RwEvent("lt", w, "write"))
        /\ UNCHANGED <<trVars, dnVars, ssVars, srVars>>

\* the rest of addFact: appendToSection on what was read, writeFile, cache
FinishAddFact(w) ==
    LET content == pending.lt[w].content
        newContent == appendToSection(content, <<"People">>,
                                      bulletPoint(WriterFacts[w]), TRUE)
        u == writeState([file |-> ltFile, cache |-> ltCache], newContent, TRUE)
    IN  /\ pending.lt[w].pc = "read"
        /\ ltFile' = u.file
        /\ ltCache' = u.cache
        /\ ltOp' = [name |-> "addFact", section |-> <<"People">>, fact |-> WriterFacts[w],
                    skip |-> FALSE,
                    had |-> EqualBullets(content, <<"People">>, WriterFacts[w]) # {}]
        /\ ltResult' = "added"
        /\ pending' = [pending EXCEPT !.lt[w].pc = "done"]
        /\ rwLog' = Append(rwLog, RwEvent("lt", w, "write"))
        /\ UNCHANGED <<trVars, dnVars, ssVars, srVars>>

\* addEntry up to `const timestamp = formatTime()`
BeginAddEntry(w) ==
    LET e == ensureToday(dnDir, formatDate(dnClock))
    IN  /\ pending.dn[w].pc = "idle"
        /\ dnDir' = e.dir
        /\ pending' = [pending EXCEPT !.dn[w] = [pc |-> "read", content |-> e.content,
                                                 time |-> formatTime(dnClock)]]
        /\ rwLog' = Append(rwLog, RwEvent("dn", w, "read"))
        /\ UNCHANGED <<dnClock, dnOp, dnResult, ltVars, trVars, ssVars, srVars>>

\* the rest of addEntry: the entry put into what was read, writeFile
FinishAddEntry(w) ==
    LET dateStr == formatDate(dnClock)
        newContent == addEntryText(pending.dn[w].content,
                                   entryLine(pending.dn[w].time, WriterNotes[w]),
                                   SessionNotes)
    IN  /\ pending.dn[w].pc = "read"
        /\ dnDir' = [dnDir EXCEPT !.files[dateStr] = FileOf(newContent)]
        /\ dnOp' = [name |-> "addEntry", content |-> WriterNotes[w],
                    section |-> SessionNotes, date |-> dateStr]
        /\ dnResult' = DnVoid
        /\ pending' = [pending EXCEPT !.dn[w].pc = "done"]
        /\ rwLog' = Append(rwLog, RwEvent("dn", w, "write"))
        /\ UNCHANGED <<dnClock, ltVars, trVars, ssVars, srVars>>

\* what each caller says
WriterMessages == <<"hi", "a long answer">>

NotAppending == [pc |-> "idle", entry |-> NoMetadata]

\* addUserMessage(content) up to the first await of append(): the parent is
\* taken from the entries as they are at the call, the entry is stamped
BeginAppend(w) ==
    LET e == fullEntry([type |-> "message", role |-> "user",
                        content |-> WriterMessages[w],
                        parentId |-> getLastEntryId(entries), metadata |-> NoMetadata],
                       uuidCount + 1)
    IN  /\ loaded
        /\ pending.tr[w].pc = "idle"
        /\ pending' = [pending EXCEPT !.tr[w] = [pc |-> "called", entry |-> e]]
        /\ uuidCount' = uuidCount + 1
        /\ rwLog' = Append(rwLog, RwEvent("tr", w, "call"))
        /\ UNCHANGED <<trFile, entries, totalTokens, loaded, trOp, trResult,
                       ltVars, dnVars, ssVars, srVars>>

\* append(): open, handle.write, handle.close
WriteAppend(w) ==
    /\ pending.tr[w].pc = "called"
    /\ trFile' = appendLine(trFile, JSONstringify(pending.tr[w].entry))
    /\ pending' = [pending EXCEPT !.tr[w].pc = "written"]
    /\ rwLog' = Append(rwLog, RwEvent("tr", w, "write"))
    /\ UNCHANGED <<entries, totalTokens, loaded, uuidCount, trOp, trResult,
                   ltVars, dnVars, ssVars, srVars>>

\* append(): this.entries.push(fullEntry); this.totalTokens += tokenCount
PushAppend(w) ==
    /\ pending.tr[w].pc = "written"
    /\ entries' = Append(entries, pending.tr[w].entry)
    /\ totalTokens' = totalTokens + pending.tr[w].entry.tokenCount
    /\ trOp' = TrCall("addUserMessage")
    /\ trResult' = NoResult
    /\ pending' = [pending EXCEPT !.tr[w].pc = "done"]
    /\ rwLog' = Append(rwLog, RwEvent("tr", w, "push"))
    /\ UNCHANGED <<trFile, loaded, uuidCount, ltVars, dnVars, ssVars, srVars>>

\* two appends in flight on a transcript that may hold entries already
InFlightNext ==
    \/ TrInit /\ rwLog = <<>>
    \/ AddAssistantMessage("a long answer") /\ rwLog = <<>>
    \/ \E w \in Writers : BeginAppend(w)
    \/ \E w \in Writers : WriteAppend(w)
    \/ \E w \in Writers : PushAppend(w)

\* one caller of addEntry, the clock moving on between its steps
MidnightNext ==
    \/ Tick
    \/ BeginAddEntry(1)
    \/ FinishAddEntry(1)
    \/ /\ pending.dn[1].pc # "read"
       /\ \E c \in ContentInputs, t \in {SessionNotes, <<"Ideas">>} : AddEntry(c, t)

ConcurrentNext ==
    \/ \E w \in Writers : BeginAddFact(w)
    \/ \E w \in Writers : FinishAddFact(w)
    \/ \E w \in Writers : BeginAddEntry(w)
    \/ \E w \in Writers : FinishAddEntry(w)

\* no search made, no call in flight
CallIdle ==
    /\ srOp = SrCall("none", "")
    /\ srResult = <<>>
    /\ pending = [lt |-> [w \in Writers |-> NotCalled], dn |-> [w \in Writers |-> NotCalled],
                  tr |-> [w \in Writers |-> NotAppending]]
    /\ rwLog = <<>>

----------------------------------------------------------------------------
(* Documents edited by hand *)

\* the most lines of a document found on disk
MaxDocLines == 4

\* the lines such a document is made of: headings of level 2, 3 and 1, a
\* blank line, a bullet
DocLines ==
    { <<"#", "#", " ", "People">>, <<"#", "#", " ", "Pets">>,
      <<"#", "#", "#", " ", "Sub">>, <<"#", " ", "People">>,
      <<>>, <<"-", " ", "Dog">> }

DocInputs == UNION { [1..n -> DocLines] : n \in 1..MaxDocLines }

\* the sections that are set, a line or two long
BodyInputs == { << <<"-", " ", "Max">> >>, << <<"-", " ", "Max">>, <<"-", " ", "Dog">> >> }

\* a LongTermMemory just constructed on a file edited by hand
LtInitStateDocs ==
    /\ \E d \in DocInputs : ltFile = FileOf(d)
    /\ ltCache = Null
    /\ ltOp = NoArgs("new")
    /\ ltResult = "void"

\* a directory that holds today's file and no other
TodayOnly(d) ==
    [exists |-> TRUE,
     files |-> [x \in Dates |-> IF x = formatDate(1) THEN FileOf(d) ELSE NoFile]]

\* a DailyNotes just constructed, today's file edited by hand
DnInitStateDocs ==
    /\ \E d \in DocInputs : dnDir = TodayOnly(d)
    /\ dnClock = 1
    /\ dnOp = DnCall("new")
    /\ dnResult = DnVoid

\* the documents in which a title stands above two sections or more
DuplicateDocs ==
    {d \in DocInputs :
        \E i, j \in Heads(d) : i < j /\ HeadingTitle(d[i]) = HeadingTitle(d[j])}

\* both stores just constructed, each on a copy of such a document
InitStateDuplicates ==
    /\ \E d \in DuplicateDocs : ltFile = FileOf(d) /\ dnDir = TodayOnly(d)
    /\ ltCache = Null
    /\ ltOp = NoArgs("new")
    /\ ltResult = "void"
    /\ dnClock = 1
    /\ dnOp = DnCall("new")
    /\ dnResult = DnVoid

\* the text a read() would return
CurrentText == readText(ltFile, ltCache)

\* edits of a long-term file that is still short
FactDocsNext ==
    /\ Len(CurrentText) <= MaxDocLines + 1
    /\ \/ \E t \in SectionInputs : AddFactWrite(t, << <<"Max">> >>, TRUE)
       \/ \E t \in SectionInputs : AddFact(t, << <<"Max">> >>, TRUE)
       \/ \E t \in SectionInputs, b \in BodyInputs : SetSection(t, b, TRUE)

\* entries added to a daily file edited by hand
DailyDocsNext ==
    \E t \in SectionInputs : AddEntry(<<"Shipped", " ", "v1">>, t)

\* appends to the transcript and to the daily file, some of them failing
AppendsNext ==
    \/ AddUserMessage("hi")
    \/ \E w \in WrittenInputs : AddUserMessageWriteFails("hi", w)
    \/ Reload
    \/ \E s \in {SessionNotes, <<"Ideas">>} : AddEntry(<<"Shipped", " ", "v1">>, s)
    \/ \E n \in CutInputs : AddEntryCutShort(<<"Shipped", " ", "v1">>, SessionNotes, n)

\* one writer of a transcript, some of its writes failing
SingleWriterNext ==
    \/ TrInit
    \/ TrLoad
    \/ Reload
    \/ AddUserMessage("hi")
    \/ AddAssistantMessage("a long answer")
    \/ AddCompaction("summary", IdsOf(getRecentEntries(entries)))
    \/ \E w \in WrittenInputs : AddUserMessageWriteFails("hi", w)

\* edits of either store
DuplicatesNext == FactDocsNext \/ DailyDocsNext

\* the long-term file with its cache, the file coming and going
CacheNext ==
    \/ LtInit
    \/ LtInitWriteFails
    \/ LtRead
    \/ ClearCache
    \/ Unlink
    \/ \E s \in SectionInputs : GetSection(s)
    \/ \E ok \in BOOLEAN :
          \/ AddFactWrite(<<"People">>, << <<"Dog">> >>, ok)
          \/ AddFacts(<<"Pets">>, << <<"Dog">>, <<"Max">> >>, ok)
          \/ \E s \in SectionInputs : SetSection(s, << <<"-", " ", "Max">> >>, ok)

\* init() of the long-term file and of the transcript, among writes
InitNext ==
    \/ LtInit
    \/ \E s \in SectionInputs : AddFactWrite(s, << <<"Dog">> >>, TRUE)
    \/ TrInit
    \/ AddUserMessage("hi")

\* the calls that may find nothing
NotFoundNext ==
    \/ DnInit
    \/ \E d \in Dates : ReadDate(d)
    \/ ListDates
    \/ \E s \in SectionInputs : GetSection(s)
    \/ SsInit
    \/ CreateSession
    \/ LoadSession(UnknownSession)
    \/ DeleteSession(UnknownSession)
    \/ \E u \in UpdateInputs : UpdateSession(UnknownSession, u)

\* a directory of notes an earlier run left: one entry, on the first date
OldNotes ==
    [exists |-> TRUE,
     files |-> [d \in Dates |->
                  IF d = DateInputs[1]
                  THEN FileOf(addEntryText(createInitialContent(d),
                                           entryLine("09:00", <<"Shipped", " ", "v1">>),
                                           SessionNotes))
                  ELSE NoFile]]

DnInitStateNotFound ==
    /\ dnDir \in {NoDirectory, OldNotes}
    /\ dnClock = 1
    /\ dnOp = DnCall("new")
    /\ dnResult = DnVoid

InitFacts == LtInitState /\ TrIdle /\ DnIdle /\ SsIdle /\ CallIdle

InitTranscript == TrInitState /\ LtIdle /\ DnIdle /\ SsIdle /\ CallIdle

InitCache == LtInitState /\ TrIdle /\ DnIdle /\ SsIdle /\ CallIdle

InitBoth == LtInitState /\ TrInitState /\ DnIdle /\ SsIdle /\ CallIdle

InitDaily == DnInitState /\ LtIdle /\ TrIdle /\ SsIdle /\ CallIdle

InitSessions == SsInitState /\ LtIdle /\ TrIdle /\ DnIdle /\ CallIdle

InitNotFound == SsInitState /\ LtInitState /\ TrIdle /\ DnInitStateNotFound /\ CallIdle

InitSearch == LtInitState /\ DnInitState /\ TrIdle /\ SsIdle /\ CallIdle

InitConcurrent == LtInitState /\ DnInitState /\ TrIdle /\ SsIdle /\ CallIdle

SpecFacts == InitFacts /\ [][LtNext]_vars

SpecTranscript == InitTranscript /\ [][TrNext]_vars

SpecCache == InitCache /\ [][CacheNext]_vars

SpecInit == InitBoth /\ [][InitNext]_vars

SpecDaily == InitDaily /\ [][DnNext]_vars

SpecSessions == InitSessions /\ [][SsNext]_vars

\* every id a caller may have kept: of the session an earlier run left and of
\* the sessions and entries made since, deleted or not
IssuedIds == {OldSession} \cup {ToString(i) : i \in 1..uuidCount}

\* sessions made, written to, opened and deleted, by ids kept from before
DeleteNext ==
    \/ SsInit
    \/ CreateSession
    \/ \E id \in IssuedIds : LoadSession(id)
    \/ \E id \in IssuedIds : DeleteSession(id)
    \/ SessionAppend("addUserMessage",
                     [type |-> "message", role |-> "user", content |-> "hi",
                      parentId |-> getLastEntryId(entries), metadata |-> NoMetadata])

SpecDelete == InitSessions /\ [][DeleteNext]_vars

SpecNotFound == InitNotFound /\ [][NotFoundNext]_vars

InitFactDocs == LtInitStateDocs /\ TrIdle /\ DnIdle /\ SsIdle /\ CallIdle

InitDailyDocs == DnInitStateDocs /\ LtIdle /\ TrIdle /\ SsIdle /\ CallIdle

SpecFactDocs == InitFactDocs /\ [][FactDocsNext]_vars

SpecDailyDocs == InitDailyDocs /\ [][DailyDocsNext]_vars

InitDuplicates == InitStateDuplicates /\ TrIdle /\ SsIdle /\ CallIdle

SpecDuplicates == InitDuplicates /\ [][DuplicatesNext]_vars

InitAppends == TrInitState /\ DnInitState /\ LtIdle /\ SsIdle /\ CallIdle

SpecAppends == InitAppends /\ [][AppendsNext]_vars

SpecSingleWriter == InitTranscript /\ [][SingleWriterNext]_vars

SpecInFlight == InitTranscript /\ [][InFlightNext]_vars

SpecMidnight == InitConcurrent /\ [][MidnightNext]_vars

SpecCompact == InitTranscript /\ [][CompactNext]_vars

SpecHistory == InitTranscript /\ [][HistoryNext]_vars

SpecSearch == InitSearch /\ [][SearchNext]_vars

SpecConcurrent == InitConcurrent /\ [][ConcurrentNext]_vars

----------------------------------------------------------------------------
(* Properties of LongTermMemory *)

AddFactCall(op, s, f) ==
    op.name = "addFact" /\ op.section = s /\ op.fact = f /\ op.skip

RemoveFactCall(op, s, f) ==
    op.name = "removeFact" /\ op.section = s /\ op.fact = f

\* C1: from a state in which section S holds no bullet equal to F,
\* addFact(S,F,true) returns "added", the same call made again right after it
\* returns "not added", and S then holds exactly one bullet equal to F.
C1_DedupIdempotence ==
    [][\A s \in SectionInputs, f \in FactInputs :
        /\ (AddFactCall(ltOp', s, f) /\ ~ltOp'.had) => ltResult' = "added"
        /\ (/\ AddFactCall(ltOp, s, f) /\ ~ltOp.had /\ ltResult = "added"
            /\ AddFactCall(ltOp', s, f))
           => /\ ltResult' = "not added"
              /\ Cardinality(EqualBullets(readText(ltFile', ltCache'), s, f)) = 1
      ]_ltVars

\* C2: addFact(S,F,true) on a section that already holds a bullet equal to F,
\* whitespace trimmed and case ignored, returns "not added" and writes
\* nothing: the file is what it was, and so is the text the cache serves (a
\* cache that was empty is filled by the read, with the unchanged file).
C2_DuplicateNotWritten ==
    [][(ltOp'.name = "addFact" /\ ltOp'.skip /\ ltOp'.had)
        => /\ ltResult' = "not added"
           /\ ltFile' = ltFile
           /\ readText(ltFile', ltCache') = readText(ltFile, ltCache)
           /\ (ltCache.set => ltCache' = ltCache)
      ]_ltVars

\* C2 witness: "- Dog" is in the section and addFact(S," dog ",true) was
\* turned away
C2_Witness ==
    /\ ltOp.name = "addFact" /\ ltOp.skip /\ ltOp.had
    /\ ltOp.fact = << <<" ", "dog", " ">> >>
    /\ ltResult = "not added"
    /\ \E i \in 1..Len(ltFile.text) : ltFile.text[i] = <<"-", " ", "Dog">>

----------------------------------------------------------------------------
(* Properties of Transcript and compaction *)

IsPrefix(a, b) == Len(a) <= Len(b) /\ SubSeq(b, 1, Len(a)) = a

IsSuffix(a, b) == Len(a) <= Len(b) /\ SubSeq(b, Len(b) - Len(a) + 1, Len(b)) = a

RECURSIVE SumContentTokens(_)
SumContentTokens(es) ==
    IF es = <<>> THEN 0 ELSE countTokens(Head(es).content) + SumContentTokens(Tail(es))

IsNotCompaction(e) == e.type # "compaction"

\* the positions with no compaction entry after them: the recent view
RecentPositions(es) ==
    {i \in 1..Len(es) : \A j \in (i+1)..Len(es) : es[j].type # "compaction"}

AppendingCalls ==
    {"addUserMessage", "addAssistantMessage", "addToolCall", "addToolResult",
     "addCompaction", "compact"}

\* C4 as claimed: getTotalTokens() is the sum of countTokens(content) over the
\* messages appended (every entry that is not a compaction), whatever
\* compactions were performed.
C4_TotalIsSumOfMessages ==
    totalTokens = SumContentTokens(SelectSeq(entries, IsNotCompaction))

\* C4 amended: getTotalTokens() is the sum of countTokens(content) over all
\* entries of the transcript, the compaction entries' summaries included: a
\* compaction adds the tokens of its summary and takes nothing away.
C4_TotalIsSumOfAllEntries ==
    /\ getTotalTokens = SumContentTokens(entries)
    /\ getTotalTokens >= SumContentTokens(SelectSeq(entries, IsNotCompaction))

\* C4 witness: messages, then a compaction, then another message
C4_Witness ==
    /\ Len(entries) >= 4
    /\ \E i \in 2..(Len(entries) - 1) : entries[i].type = "compaction"
    /\ entries[Len(entries)].type = "message"
    /\ totalTokens > SumContentTokens(SelectSeq(entries, IsNotCompaction))

\* C5: getRecentEntries() is the suffix of the entries that starts at the last
\* compaction entry, or all of them if there is none; right after
\* addCompaction it is the new compaction entry alone, and getRecentTokens()
\* is the token count of that entry.
C5_RecentIsSuffixFromLastCompaction ==
    LET recent == getRecentEntries(entries)
    IN  /\ IsSuffix(recent, entries)
        /\ Len(recent) = Cardinality(RecentPositions(entries))
        /\ (\A i \in 1..Len(entries) : entries[i].type # "compaction")
              => recent = entries
        /\ (\E i \in 1..Len(entries) : entries[i].type = "compaction")
              => /\ recent[1].type = "compaction"
                 /\ \A i \in 2..Len(recent) : recent[i].type # "compaction"
        /\ (trOp.name = "addCompaction" \/ (trOp.name = "compact" /\ trResult.status = "ok"))
              => /\ recent = << entries[Len(entries)] >>
                 /\ getRecentTokens(entries) = countTokens(entries[Len(entries)].content)

\* C5 witness: a second compaction was just added after messages and an
\* earlier compaction
C5_Witness ==
    /\ trOp.name = "addCompaction"
    /\ Len(entries) >= 4
    /\ entries[1].type = "message"
    /\ \E i \in 2..(Len(entries) - 1) : entries[i].type = "compaction"

\* C6: compact() on fewer than 5 recent entries is "nothing to do": the
\* summarizer is not called, nothing is appended, and the file, the entries
\* in memory and the token totals are what they were.
C6_CompactNoOpUnderFive ==
    [][(trOp'.name = "compact"
        /\ Cardinality(RecentPositions(entries)) < MinCompactEntries)
        => /\ trResult'.status = "nothing to do"
           /\ trOp'.summarizer = "not called"
           /\ UNCHANGED <<trFile, entries, totalTokens, uuidCount>>
      ]_vars

\* C6 witness: five entries, fewer than five of them recent, and compact
\* did nothing
C6_Witness ==
    /\ trOp.name = "compact"
    /\ trResult.status = "nothing to do"
    /\ Len(entries) >= MinCompactEntries
    /\ Cardinality(RecentPositions(entries)) < MinCompactEntries

\* C7: reload() on a transcript that holds appended entries reads back the
\* same entries in the same order, field for field, and the same total.
C7_ReloadRoundTrip ==
    [][(trOp'.name = "reload" /\ loaded)
        => /\ entries' = entries
           /\ totalTokens' = totalTokens
      ]_vars

\* C7 witness: entries of all four kinds were appended and reloaded
C7_Witness ==
    /\ trOp.name = "reload"
    /\ uuidCount >= 4
    /\ \A k \in {"message", "tool_call", "tool_result", "compaction"} :
          \E i \in 1..Len(entries) : entries[i].type = k /\ entries[i].id # "old-1"

\* every id a compaction entry names as replaced is the id of an entry that
\* is still in memory and still a line of the file
ReplacedStillPresent ==
    \A i \in 1..Len(entries) :
        entries[i].type = "compaction" =>
            \A k \in 1..Len(entries[i].metadata.removedEntryIds) :
                /\ \E j \in 1..Len(entries) :
                      entries[j].id = entries[i].metadata.removedEntryIds[k]
                /\ \E j \in 1..Len(trFile.lines) :
                      /\ Parses(trFile.lines[j])
                      /\ JSONparse(trFile.lines[j]).id
                            = entries[i].metadata.removedEntryIds[k]

\* C8: across every appending call (the four wrappers, addCompaction,
\* compact) the entries before the call are a prefix of the entries after
\* it, in memory and on disk, and the entries a compaction replaces stay
\* where they were.
C8_AppendOnly ==
    [][(trOp'.name \in AppendingCalls)
        => /\ IsPrefix(entries, entries')
           /\ IsPrefix(trFile.lines, trFile'.lines)
           /\ ReplacedStillPresent'
      ]_vars

\* C8 witness: compact() summarized entries and they are still there
C8_Witness ==
    /\ trOp.name = "compact"
    /\ trResult.status = "ok"
    /\ Len(entries[Len(entries)].metadata.removedEntryIds) >= 2
    /\ ReplacedStillPresent

\* C9: after a successful compact() the entries at and after the cut point
\* are still in the recent view, together with the new summary, and only the
\* entries before the cut point are archived.
C9_KeptEntriesStayRecent ==
    [][(trOp'.name = "compact" /\ trResult'.status = "ok")
        => LET before == getRecentEntries(entries)
               after == getRecentEntries(entries')
           IN  /\ \A i \in (trOp'.cut + 1)..Len(before) :
                     \E j \in 1..Len(after) : after[j] = before[i]
               /\ \E j \in 1..Len(after) :
                     after[j].type = "compaction" /\ after[j].content = trResult'.summary
               /\ \A i \in 1..trOp'.cut :
                     \A j \in 1..Len(after) : after[j] # before[i]
      ]_vars

\* C10: if the summarizer fails, compact() fails with it: no compaction
\* entry is appended and the file, the entries in memory, the totals and the
\* recent view are what they were.
C10_SummarizerFailureLeavesTranscript ==
    [][(trOp'.name = "compact" /\ trOp'.summarizer = "threw")
        => /\ trResult'.status = "error"
           /\ UNCHANGED <<trFile, entries, totalTokens, uuidCount>>
           /\ getRecentEntries(entries') = getRecentEntries(entries)
      ]_vars

\* C10 witness: five entries, enough to summarize, and the summarizer threw
C10_Witness ==
    /\ trOp.name = "compact"
    /\ trOp.summarizer = "threw"
    /\ trOp.cut >= 2
    /\ trResult.status = "error"
    /\ Len(entries) >= MinCompactEntries

\* the sum of the token counts of the entries in the recent view, taken by
\* position
RecentTokenSum(es) ==
    SumTokens(SubSeq(es, Len(es) - Cardinality(RecentPositions(es)) + 1, Len(es)))

ParsedLines(file) ==
    LET good == SelectSeq(file.lines, Parses)
    IN  [i \in 1..Len(good) |-> JSONparse(good[i])]

\* the call read the file: load() or init() on a transcript not yet loaded,
\* or reload()
ReadsFile(op, wasLoaded) ==
    op.name = "reload" \/ (op.name \in {"load", "init"} /\ ~wasLoaded)

\* C12: load() on a file some lines of which do not parse loads the records
\* of the lines that do, in file order, passes over each bad or blank line
\* and completes; the total is the sum over the loaded entries; the lines
\* before and after a bad line are all loaded.
C12_BadLinesSkipped ==
    [][(ReadsFile(trOp', loaded) /\ trFile.exists)
        => /\ loaded'
           /\ entries' = ParsedLines(trFile)
           /\ totalTokens' = SumTokens(entries')
           /\ trFile' = trFile
           /\ \A i \in 1..Len(trFile.lines) :
                 Parses(trFile.lines[i])
                 => \E j \in 1..Len(entries') : entries'[j] = JSONparse(trFile.lines[i])
      ]_vars

\* C12 witness: a file with a damaged line in the middle was loaded, and the
\* entries before and after that line are in memory
C12_Witness ==
    /\ ReadsFile(trOp, FALSE)
    /\ \E i \in 2..(Len(trFile.lines) - 1) :
          /\ ~Parses(trFile.lines[i])
          /\ \E j \in 1..Len(entries) : entries[j] = JSONparse(trFile.lines[1])
          /\ \E j \in 1..Len(entries) :
                entries[j] = JSONparse(trFile.lines[Len(trFile.lines)])
    /\ Len(entries) < Len(trFile.lines)
    /\ totalTokens = SumTokens(entries)

\* C13: every entry that is not a compaction carries the token count
\* countTokens(content) that append() stamped on it, in memory and on the
\* line append() writes for it, and no later append, compaction, load or
\* reload alters the count of an entry or a line of the file.
C13_TokenCountStamped ==
    [][/\ \A i \in 1..Len(entries') :
             entries'[i].type # "compaction"
             => entries'[i].tokenCount = countTokens(entries'[i].content)
       /\ \A i \in (Len(trFile.lines) + 1)..Len(trFile'.lines) :
             LET written == JSONparse(trFile'.lines[i])
             IN  written.type # "compaction"
                 => written.tokenCount = countTokens(written.content)
       /\ IsPrefix(trFile.lines, trFile'.lines)
       /\ \A i \in 1..Len(entries), j \in 1..Len(entries') :
             entries'[j].id = entries[i].id
             => entries'[j].tokenCount = entries[i].tokenCount
      ]_vars

\* C13 witness: an answer of three tokens was appended, a compaction came
\* after it, the transcript was reloaded, and the answer still counts three
C13_Witness ==
    /\ trOp.name = "reload"
    /\ \E i \in 1..Len(entries) :
          /\ entries[i].content = "a long answer"
          /\ entries[i].id \notin {"old-1", "old-2"}
          /\ entries[i].tokenCount = countTokens("a long answer")
          /\ \E j \in (i+1)..Len(entries) : entries[j].type = "compaction"

----------------------------------------------------------------------------
(* Properties of the cache and of init() *)

\* the cache is empty or holds the text of the file
Coherent(f, c) == ~c.set \/ (f.exists /\ c.text = f.text)

LocalOperations ==
    {"init", "read", "getSection", "addFact", "addFacts", "setSection", "clearCache"}

C15_ReadRecreatesVanishedFile ==
    [][(ltOp'.name \in {"read", "getSection"} /\ ~ltFile.exists)
        => /\ ltFile' = FileOf(InitialContent)
           /\ ltCache' = Cached(InitialContent)
      ]_vars

\* C15 amended: read() and getSection() called while the file is absent
\* recreate the skeleton file and work on the skeleton only if the cache is
\* empty; if an earlier call filled the cache they work on the cached text,
\* that of the file that is gone, and the file stays absent.
C15_ReadServesCacheFirst ==
    [][(ltOp'.name \in {"read", "getSection"} /\ ~ltFile.exists)
        => IF ltCache.set
           THEN /\ ltFile' = NoFile
                /\ ltCache' = ltCache
           ELSE /\ ltFile' = FileOf(InitialContent)
                /\ ltCache' = Cached(InitialContent)
      ]_vars

\* C15 witness: the file was removed after a fact was added, and a read
\* served the text with the fact while the file is still absent
C15_Witness ==
    /\ ltOp.name \in {"read", "getSection"}
    /\ ~ltFile.exists
    /\ ltCache.set
    /\ \E i \in 1..Len(ltCache.text) : ltCache.text[i] = <<"-", " ", "Dog">>

\* the text is a title, then the sections Preferences, People, Projects and
\* Facts in that order, all empty
IsSkeleton(t) ==
    /\ SelectSeq(t, isSectionHeading)
         = << <<"#", "#", " ", "Preferences">>, <<"#", "#", " ", "People">>,
              <<"#", "#", " ", "Projects">>, <<"#", "#", " ", "Facts">> >>
    /\ t[1] = <<"#", " ", "Long-Term", " ", "Memory">>
    /\ \A i \in 2..Len(t) : isSectionHeading(t[i]) \/ IsBlank(t[i])

\* C16: init() creates the backing file if it is absent (the long-term file
\* as the title and the four empty sections in order, the transcript as an
\* empty file) and leaves a file that is there as it is, so that facts and
\* entries written earlier survive it, called any number of times.
C16_InitNonDestructive ==
    [][/\ (ltOp'.name = "init" /\ ltOp' # ltOp)
             => IF ltFile.exists THEN ltFile' = ltFile
                ELSE ltFile'.exists /\ IsSkeleton(ltFile'.text)
       /\ (trOp'.name = "init" /\ trOp' # trOp)
             => /\ IF trFile.exists THEN trFile' = trFile
                   ELSE trFile' = [exists |-> TRUE, lines |-> <<>>]
                /\ IsPrefix(entries, entries')
                /\ entries' = ParsedLines(trFile')
       /\ (ltOp.name = "init" /\ ltOp'.name = "init") => ltFile' = ltFile
       /\ (trOp.name = "init" /\ trOp'.name = "init")
             => trFile' = trFile /\ entries' = entries
      ]_vars

\* C16 witness: init() of both was called on files that hold a fact and an
\* entry appended earlier
C16_Witness ==
    /\ ltOp.name = "init"
    /\ \E i \in 1..Len(ltFile.text) : ltFile.text[i] = <<"-", " ", "Dog">>
    /\ trOp.name = "init"
    /\ \E i \in 1..Len(entries) : entries[i].id = "1"
    /\ entries = ParsedLines(trFile)

----------------------------------------------------------------------------
(* Properties of the daily notes *)

AddEntryNames == {"addEntry", "addDecision", "addIdea", "addTask"}

\* a step of addEntry or of one of its wrappers
IsAddEntryStep == dnOp'.name \in AddEntryNames /\ dnDir' # dnDir

HeadingLine(section) == <<"#", "#", " ">> \o section

\* the heading a line stands under: the last heading line above it
HeadingAbove(t, i) ==
    IF \E j \in 1..(i-1) : isSectionHeading(t[j])
    THEN LET h == CHOOSE j \in 1..(i-1) :
                     /\ isSectionHeading(t[j])
                     /\ \A k \in (j+1)..(i-1) : ~isSectionHeading(t[k])
         IN  t[h]
    ELSE <<>>

\* the entry lines of a text in order, each with the heading it stands under
EntryLines(t) ==
    LET all == [i \in 1..Len(t) |-> [line |-> t[i], heading |-> HeadingAbove(t, i)]]
        IsEntry(r) == IsBullet(r.line)
    IN  SelectSeq(all, IsEntry)

StandardHeadings ==
    << HeadingLine(SessionNotes), HeadingLine(DecisionsMade),
       HeadingLine(<<"Ideas">>), HeadingLine(<<"Tasks">>) >>

IsStandardSection(section) ==
    \E i \in 1..Len(StandardHeadings) : StandardHeadings[i] = HeadingLine(section)

\* C17: addEntry called when today's file does not exist leaves a file that
\* is the skeleton (the date title, then Session Notes, Decisions Made,
\* Ideas and Tasks) with exactly one entry line, the new one, under the
\* requested section, whose heading is added after the four if it is not
\* one of them.
C17_FirstEntryCreatesSkeleton ==
    [][(IsAddEntryStep /\ ~(dnDir.exists /\ dnDir.files[dnOp'.date].exists))
        => LET t == dnDir'.files[dnOp'.date].text
               section == dnOp'.section
           IN  /\ dnDir'.exists /\ dnDir'.files[dnOp'.date].exists
               /\ dnOp'.date = formatDate(dnClock)
               /\ t[1] = <<"#", " ", dnOp'.date>>
               /\ SelectSeq(t, isSectionHeading)
                     = IF IsStandardSection(section) THEN StandardHeadings
                       ELSE StandardHeadings \o << HeadingLine(section) >>
               /\ EntryLines(t)
                     = << [line |-> entryLine(formatTime(dnClock), dnOp'.content),
                           heading |-> HeadingLine(section)] >>
               /\ \A i \in 2..Len(t) :
                     isSectionHeading(t[i]) \/ IsBullet(t[i]) \/ IsBlank(t[i])
      ]_vars

\* C17 witness: an addEntry under a section that is not one of the four made
\* the file of the day, which holds the one entry under the new heading
C17_Witness ==
    /\ dnOp.name = "addEntry"
    /\ dnOp.section = <<"Pets">>
    /\ dnDir.exists /\ dnDir.files[dnOp.date].exists
    /\ Len(EntryLines(dnDir.files[dnOp.date].text)) = 1
    /\ EntryLines(dnDir.files[dnOp.date].text)[1].heading = HeadingLine(<<"Pets">>)

RemoveAt(s, k) == SubSeq(s, 1, k - 1) \o SubSeq(s, k + 1, Len(s))

\* C18 as claimed: every addEntry call leaves the entry lines that were in
\* the file of the day in place, textually unchanged, under the same
\* headings and in the same order, and adds exactly one entry line, the new
\* one under the requested section, and at most one heading.
C18_EntriesAppendOnly ==
    [][IsAddEntryStep
        => LET old == EntryLines(readDate(dnDir, dnOp'.date))
               new == EntryLines(dnDir'.files[dnOp'.date].text)
               oldHeadings == SelectSeq(readDate(dnDir, dnOp'.date), isSectionHeading)
               newHeadings == SelectSeq(dnDir'.files[dnOp'.date].text, isSectionHeading)
           IN  /\ \E k \in 1..Len(new) :
                     /\ RemoveAt(new, k) = old
                     /\ new[k] = [line |-> entryLine(formatTime(dnClock), dnOp'.content),
                                  heading |-> HeadingLine(dnOp'.section)]
               /\ Len(newHeadings) <= Len(oldHeadings) + 4 + 1
               /\ (old # <<>>) => Len(newHeadings) <= Len(oldHeadings) + 1
               /\ \A d \in Dates \ {dnOp'.date} : dnDir'.files[d] = dnDir.files[d]
      ]_vars

----------------------------------------------------------------------------
(* Properties of the session index and of the calls that find nothing *)

\* the number of compaction entries, counted over the positions
CompactionEntries(es) == Cardinality({i \in 1..Len(es) : es[i].type = "compaction"})

TextRead == IF ltCache.set THEN ltCache.text
            ELSE IF ltFile.exists THEN ltFile.text
            ELSE InitialContent

\* the sessions a call finds, once load() has run
SessionsLoaded == ssLoadState(ssFile, sessions, ssLoaded)

IsUnknown(sessionId) ==
    \A i \in 1..Len(SessionsLoaded) : SessionsLoaded[i].sessionId # sessionId

\* no stored session and no note changes; the sessions in memory are as
\* they were, or as load() reads them from the index
StoredUnchanged ==
    /\ dnDir' = dnDir
    /\ ssFile' = ssFile
    /\ sessions' \in {sessions, SessionsLoaded}
    /\ parked' = parked
    /\ current' = current
    /\ trFile' = trFile
    /\ entries' = entries

\* C20: a call that finds nothing answers with a value and alters no stored
\* session or note: readDate of a date without a file gives the empty
\* string, listDates without a directory the empty list, getSection of a
\* missing section "not found", loadSession of an unknown id null,
\* deleteSession of an unknown id false, and updateSession of an unknown id
\* returns having done nothing.
C20_NotFoundIsAValue ==
    [][/\ (dnOp'.name = "readDate" /\ dnOp' # dnOp
            /\ ~(dnDir.exists /\ dnDir.files[dnOp'.date].exists))
          => /\ dnResult' = [DnVoid EXCEPT !.kind = "text", !.text = EmptyText]
             /\ StoredUnchanged
       /\ (dnOp'.name = "listDates" /\ dnOp' # dnOp /\ ~dnDir.exists)
          => /\ dnResult' = [DnVoid EXCEPT !.kind = "dates", !.dates = <<>>]
             /\ StoredUnchanged
       /\ (ltOp'.name = "getSection" /\ ltOp' # ltOp
            /\ FindHeading(TextRead, ltOp'.section) = 0)
          => /\ ltResult' = "not found"
             /\ StoredUnchanged
       /\ (ssOp'.name = "loadSession" /\ ssOp' # ssOp /\ IsUnknown(ssOp'.sessionId))
          => /\ ssResult' = "null"
             /\ StoredUnchanged
       /\ (ssOp'.name = "deleteSession" /\ ssOp' # ssOp /\ IsUnknown(ssOp'.sessionId))
          => /\ ssResult' = "false"
             /\ StoredUnchanged
       /\ (ssOp'.name = "updateSession" /\ ssOp' # ssOp /\ IsUnknown(ssOp'.sessionId))
          => /\ ssResult' = "void"
             /\ StoredUnchanged
      ]_vars

\* C20 witness: with a session in the index and a note on another date, a
\* readDate found no file, a getSection no section and a deleteSession no
\* session
C20_Witness ==
    /\ dnOp.name = "readDate"
    /\ dnDir = OldNotes
    /\ ~dnDir.files[dnOp.date].exists
    /\ dnResult.text = EmptyText
    /\ ltOp.name = "getSection"
    /\ ltResult = "not found"
    /\ ssOp.name = "deleteSession"
    /\ ssResult = "false"
    /\ ssFile = SessionsFileOf(OldSessions)
    /\ sessions = OldSessions

----------------------------------------------------------------------------
(* Properties of search *)

\* the line holds a match of the pattern, case ignored
HasMatch(l, pattern) == \E i \in 1..Len(l) : toLowerCaseChar(l[i]) = pattern

\* the lines of a text that hold a match, in the order of the text
MatchingLines(t, pattern) ==
    LET Test(l) == HasMatch(l, pattern)
    IN  SelectSeq(t, Test)

\* C21 as claimed: LongTermMemory.search(pattern) returns exactly the lines
\* of the file that hold a match of the pattern, case ignored, each as it is
\* in the file and in the order of the file, also when matching lines
\* follow one another.
C21_SearchReturnsEveryMatch ==
    (srOp.store = "LongTermMemory" /\ ltOp.name = "search")
        => [i \in 1..Len(srResult) |-> srResult[i].line]
             = MatchingLines(ltFile.text, srOp.pattern)

\* the pairs a date contributes: its matching lines, if it has a file
PairsOf(dir, d, pattern) ==
    IF dir.exists /\ dir.files[d].exists
    THEN LET m == MatchingLines(dir.files[d].text, pattern)
         IN  [i \in 1..Len(m) |-> [date |-> d, line |-> m[i]]]
    ELSE <<>>

\* C22 as claimed: DailyNotes.search(pattern) returns one (date, line) pair
\* for every matching line of every dated file and no other pair, the most
\* recent date first and, within a date, in the order of the file.
C22_SearchReturnsEveryPair ==
    (srOp.store = "DailyNotes" /\ dnOp.name = "search")
        => srResult = PairsOf(dnDir, DateInputs[2], srOp.pattern)
                      \o PairsOf(dnDir, DateInputs[1], srOp.pattern)

----------------------------------------------------------------------------
(* Properties of the chain of entries and of the conversation history *)

\* the wrappers of append() that take the parent from the transcript when
\* the caller names none
DefaultingCalls == {"addUserMessage", "addAssistantMessage", "addToolCall"}

\* C23 as claimed: an entry added by addUserMessage, addAssistantMessage or
\* addToolCall without a parentId has for parentId the id of the entry that
\* was last in the transcript file just before the call, null only if the
\* file held no entry, whether or not the transcript was loaded before.
C23_DefaultParentIsLastEntry ==
    [][(trOp'.name \in DefaultingCalls /\ Len(trFile'.lines) = Len(trFile.lines) + 1)
        => LET before == ParsedLines(trFile)
           IN  entries'[Len(entries')].parentId
                 = IF before = <<>> THEN NullId ELSE before[Len(before)].id
      ]_vars

\* the k-th of a set of positions, in ascending order
NthPosition(P, k) == CHOOSE i \in P : Cardinality({j \in P : j <= i}) = k

\* C24: buildConversationHistory() returns, in transcript order, one item
\* for each compaction or message entry from the last compaction entry on
\* and nothing else: a compaction entry gives an assistant item, the summary
\* behind the marker line, a message entry an item with its role and its
\* content as it is; tool calls, tool results and the entries before the
\* last compaction give nothing.
C24_HistoryOfRecentMessages ==
    (trOp.name = "buildConversationHistory")
        => LET h == trResult.history
               P == {i \in RecentPositions(entries) :
                        entries[i].type \in {"compaction", "message"}}
           IN  /\ Len(h) = Cardinality(P)
               /\ \A k \in 1..Len(h) :
                     LET e == entries[NthPosition(P, k)]
                     IN  IF e.type = "compaction"
                         THEN h[k] = [role |-> "assistant",
                                      content |-> << SummaryMarker, e.content >>]
                         ELSE h[k] = [role |-> e.role, content |-> << e.content >>]

\* C24 witness: a history of a summary and a message, taken from a
\* transcript that holds a message before the compaction and a tool call
\* after it
C24_Witness ==
    /\ trOp.name = "buildConversationHistory"
    /\ Len(trResult.history) = 2
    /\ trResult.history[1].content = << SummaryMarker, "summary" >>
    /\ trResult.history[2].role = "user"
    /\ \E i, j \in 1..Len(entries) :
          /\ i < j
          /\ entries[i].type = "message"
          /\ entries[j].type = "compaction"
    /\ \E i \in RecentPositions(entries) : entries[i].type = "tool_call"

----------------------------------------------------------------------------
(* Properties of calls that overlap *)

\* the place in the log of a caller's read or write
EventIndex(store, w, kind) ==
    CHOOSE i \in 1..Len(rwLog) : rwLog[i] = RwEvent(store, w, kind)

BothDone(store) == \A w \in Writers : pending[store][w].pc = "done"

\* the caller whose write came last, and the other one
LastWriter(store) ==
    CHOOSE w \in Writers :
        \A v \in Writers : EventIndex(store, v, "write") <= EventIndex(store, w, "write")

FirstWriter(store) == CHOOSE w \in Writers : w # LastWriter(store)

\* the caller read before the other one wrote
ReadTooEarly(store) ==
    EventIndex(store, LastWriter(store), "read")
        < EventIndex(store, FirstWriter(store), "write")

HasFactOf(w) ==
    \E i \in 1..Len(ltFile.text) : ltFile.text[i] = <<"-", " ">> \o WriterFacts[w][1]

HasEntryOf(w) ==
    LET t == dnDir.files[formatDate(dnClock)].text
    IN  \E i \in 1..Len(t) : t[i] = entryLine(pending.dn[w].time, WriterNotes[w])

\* C25: two addFact calls, or two addEntry calls, on the same file that
\* both read before either writes lose an update: once both have returned
\* with success the file holds the line of the one that wrote last, and the
\* line of the other exactly when the last one read after the other wrote.
C25_OverlappingWritersLoseUpdates ==
    /\ BothDone("lt")
          => /\ HasFactOf(LastWriter("lt"))
             /\ HasFactOf(FirstWriter("lt")) <=> ~ReadTooEarly("lt")
    /\ BothDone("dn")
          => /\ HasEntryOf(LastWriter("dn"))
             /\ HasEntryOf(FirstWriter("dn")) <=> ~ReadTooEarly("dn")

\* C25 witness: both addFact calls and both addEntry calls have returned,
\* every one with success, and each file holds one of the two new lines only
C25_Witness ==
    /\ BothDone("lt")
    /\ ltResult = "added"
    /\ Cardinality({w \in Writers : HasFactOf(w)}) = 1
    /\ BothDone("dn")
    /\ Cardinality({w \in Writers : HasEntryOf(w)}) = 1

----------------------------------------------------------------------------
(* Properties of compact() *)

\* the recent view, taken by position
Recent(es) == SubSeq(es, Len(es) - Cardinality(RecentPositions(es)) + 1, Len(es))

\* the token counts of the entries at positions a to b, summed
RECURSIVE TokensFromTo(_, _, _)
TokensFromTo(es, a, b) ==
    IF a > b THEN 0
    ELSE (IF es[a].tokenCount = UndefinedCount THEN 0 ELSE es[a].tokenCount)
         + TokensFromTo(es, a + 1, b)

\* the number of entries before the longest suffix of the recent view that
\* stays within keepRecentTokens
LongestSuffixCut(r) ==
    CHOOSE c \in 0..Len(r) :
        /\ TokensFromTo(r, c + 1, Len(r)) <= KeepRecentTokens
        /\ c >= 1 => TokensFromTo(r, c, Len(r)) > KeepRecentTokens

\* compact() was called on five recent entries or more
IsCompactStep == trOp'.name = "compact" /\ Len(Recent(entries)) >= MinCompactEntries

LastEntry(es) == es[Len(es)]

\* C26: the entries compact() keeps are the longest suffix of the recent
\* view whose token counts sum to keepRecentTokens at most: the counts at
\* and after the cut point do not exceed it, with the entry just before the
\* cut point they do, and the entries before the cut point are the ones
\* recorded as replaced.
C26_CutKeepsLongestSuffix ==
    [][IsCompactStep
        => LET r == Recent(entries)
               cut == trOp'.cut
           IN  /\ cut \in 0..Len(r)
               /\ TokensFromTo(r, cut + 1, Len(r)) <= KeepRecentTokens
               /\ cut >= 1 => TokensFromTo(r, cut, Len(r)) > KeepRecentTokens
               /\ cut = LongestSuffixCut(r)
               /\ trResult'.status = "ok"
                     => LastEntry(entries').metadata.removedEntryIds
                          = [i \in 1..cut |-> r[i].id]
      ]_vars

\* C26 witness: compact() summarized two entries or more and kept a suffix
\* whose tokens are exactly keepRecentTokens
C26_Witness ==
    /\ trOp.name = "compact"
    /\ trResult.status = "ok"
    /\ trOp.cut >= 2
    /\ LET r == Recent(SubSeq(entries, 1, Len(entries) - 1))
       IN  /\ trOp.cut < Len(r)
           /\ TokensFromTo(r, trOp.cut + 1, Len(r)) = KeepRecentTokens

\* C27: compact() whose cut point is 0 or 1, as it is whenever the recent
\* entries' tokens do not exceed keepRecentTokens, does nothing: the
\* summarizer is not called and nothing is appended; so a compaction entry
\* made by compact() replaces two entries at least.
C27_NoOpUnlessTwoToSummarize ==
    [][(trOp'.name = "compact")
        => LET r == Recent(entries)
               noOp == /\ trResult'.status = "nothing to do"
                       /\ trOp'.summarizer = "not called"
                       /\ UNCHANGED <<trFile, entries, totalTokens, uuidCount>>
           IN  /\ LongestSuffixCut(r) <= 1 => noOp
               /\ TokensFromTo(r, 1, Len(r)) <= KeepRecentTokens => noOp
               /\ trResult'.status = "ok"
                     => /\ LastEntry(entries').type = "compaction"
                        /\ Len(LastEntry(entries').metadata.removedEntryIds) >= 2
                        /\ LastEntry(entries').metadata.removedCount >= 2
      ]_vars

\* C27 witness: compact() did nothing on five recent entries whose cut
\* point is 1
C27_Witness ==
    /\ trOp.name = "compact"
    /\ trResult.status = "nothing to do"
    /\ Len(Recent(entries)) >= MinCompactEntries
    /\ LongestSuffixCut(Recent(entries)) = 1
    /\ trOp.cut = 1

\* C28: the text compact() hands to the summarizer is made of the message
\* entries before the cut point and of nothing else, each as its role and
\* its content, in transcript order, a blank line between two; the ids
\* recorded as replaced are those of all the entries before the cut point.
C28_SummarizerSeesMessagesOnly ==
    [][(IsCompactStep /\ trOp'.summarizer # "not called")
        => LET r == Recent(entries)
               cut == LongestSuffixCut(r)
               M == {i \in 1..cut : r[i].type = "message"}
               text == trOp'.text
           IN  /\ Len(text) = IF M = {} THEN 0 ELSE 2 * Cardinality(M) - 1
               /\ \A k \in 1..Cardinality(M) :
                     text[2 * k - 1] = << r[NthPosition(M, k)].role, ":", " ",
                                          r[NthPosition(M, k)].content >>
               /\ \A k \in 1..(Cardinality(M) - 1) : text[2 * k] = <<>>
               /\ trResult'.status = "ok"
                     => LastEntry(entries').metadata.removedEntryIds
                          = [i \in 1..cut |-> r[i].id]
      ]_vars

\* C28 witness: compact() summarized two messages together with an entry of
\* another kind, which is among the ids replaced and not in the text
C28_Witness ==
    /\ trOp.name = "compact"
    /\ trResult.status = "ok"
    /\ Len(trOp.text) = 3
    /\ trOp.cut >= 3
    /\ \E i \in 1..(Len(entries) - 1) :
          /\ entries[i].type # "message"
          /\ \E k \in 1..Len(LastEntry(entries).metadata.removedEntryIds) :
                LastEntry(entries).metadata.removedEntryIds[k] = entries[i].id

\* C29: tokensSaved of a successful compact() is the token count of the
\* recent entries before the call, less that of the entries kept, less the
\* token count of the summary: the tokens of the entries summarized less
\* those of the summary, below zero if the summary is the longer.
C29_TokensSaved ==
    [][(IsCompactStep /\ trResult'.status = "ok")
        => LET r == Recent(entries)
               cut == LongestSuffixCut(r)
           IN  /\ trResult'.tokensSaved
                     = TokensFromTo(r, 1, Len(r)) - TokensFromTo(r, cut + 1, Len(r))
                       - countTokens(trResult'.summary)
               /\ trResult'.tokensSaved
                     = TokensFromTo(r, 1, cut) - LastEntry(entries').tokenCount
      ]_vars

\* C29 witness: a compact() whose summary is longer than what it replaces
C29_Witness ==
    /\ trOp.name = "compact"
    /\ trResult.status = "ok"
    /\ trResult.tokensSaved < 0

\* C30: the result of a successful compact() agrees with the transcript:
\* newTotalTokens is getRecentTokens() with the compaction entry in place,
\* removedEntryCount is the number of ids recorded in that entry, and
\* summary is that entry's content.
C30_ResultAgreesWithTranscript ==
    [][(IsCompactStep /\ trResult'.status = "ok")
        => LET c == LastEntry(entries')
               after == Recent(entries')
           IN  /\ c.type = "compaction"
               /\ trResult'.newTotalTokens = TokensFromTo(after, 1, Len(after))
               /\ trResult'.removedEntryCount = Len(c.metadata.removedEntryIds)
               /\ trResult'.removedEntryCount = c.metadata.removedCount
               /\ trResult'.summary = c.content
      ]_vars

\* C30 witness: a compact() that replaced three entries by a summary of two
\* tokens
C30_Witness ==
    /\ trOp.name = "compact"
    /\ trResult.status = "ok"
    /\ trResult.removedEntryCount = 3
    /\ trResult.newTotalTokens = 2
    /\ trResult.summary = "a long summary"
    /\ LastEntry(entries).content = "a long summary"

----------------------------------------------------------------------------
(* Properties of documents edited by hand *)

\* C31: the file addEntry writes is upsertInSection of the file it read,
\* the section, the entry line and createIfMissing = true, whatever the
\* file holds: headings of level 1 or 3, several blank lines in a row.
C31_AddEntryIsUpsert ==
    [][IsAddEntryStep
        => LET d == dnOp'.date
               before == ensureToday(dnDir, d).content
               entry == entryLine(formatTime(dnClock), dnOp'.content)
           IN  dnDir'.files[d].text
                 = appendToSection(before, dnOp'.section, << entry >>, TRUE)
      ]_vars

\* the sections under a heading, in order, each with its body as getSection
\* gives it
Titled(t) ==
    LET secs == parseSections(t)
        off == IF IsHeading(t[1]) THEN 0 ELSE 1
    IN  [i \in 1..(Len(secs) - off) |->
            [title |-> secs[i + off].title,
             body  |-> TrimBlankLines(secs[i + off].body)]]

\* where the first section titled title stands in a list of sections, 0 if
\* there is none
FirstTitled(secs, title) ==
    IF \E k \in 1..Len(secs) : secs[k].title = title
    THEN CHOOSE k \in 1..Len(secs) :
            /\ secs[k].title = title
            /\ \A j \in 1..(k-1) : secs[j].title # title
    ELSE 0

\* the lines between the k-th heading of t and the next one
RawBody(t, k) == SubSeq(t, NthHead(t, k) + 1, SectionEnd(t, NthHead(t, k)) - 1)

\* the step is an addFact that wrote the file
IsAddFactStep == ltOp'.name = "addFact" /\ ltResult' = "added"

\* C32: upsertInSection on a document that has the section makes newLine
\* the last line of the body of the first such section, leaves exactly one
\* blank line between it and the next heading, and leaves the titles, the
\* order and the bodies of the other sections as they were; on a document
\* that lacks the section it returns the text as it is when createIfMissing
\* is false, and adds a heading '## title' followed by newLine at the end
\* when it is true.
C32_UpsertAppendsToSection ==
    [][IsAddFactStep
        => LET t == CurrentText
               u == ltCache'.text
               title == ltOp'.section
               new == bulletPoint(ltOp'.fact)[1]
               T == Titled(t)
               k == FirstTitled(T, title)
           IN  /\ ltFile'.text = u
               /\ k > 0 =>
                     /\ Titled(u) = [T EXCEPT ![k].body = @ \o << new >>]
                     /\ LET b == RawBody(u, k)
                        IN  IF k < Len(T)
                            THEN /\ Len(b) >= 2
                                 /\ b[Len(b)] = <<>>
                                 /\ b[Len(b) - 1] = new
                            ELSE b[LastNonBlank(b)] = new
               /\ k = 0 =>
                     /\ appendToSection(t, title, << new >>, FALSE) = t
                     /\ Titled(u) = T \o << [title |-> title, body |-> << new >>] >>
                     /\ LET h == Len(u) - 2
                        IN  /\ h >= 1
                            /\ u[h] = createHeading(title)
                            /\ u[h + 1] = new
                            /\ IsBlank(u[h + 2])
      ]_vars

\* C32 witness: addFact has added '- Max' under '## People' above a blank
\* line and another heading, a bullet already in the section
C32_Witness ==
    /\ ltOp.name = "addFact"
    /\ ltResult = "added"
    /\ ltOp.section = <<"People">>
    /\ \E i \in 1..(Len(ltFile.text) - 4) :
          /\ ltFile.text[i] = <<"#", "#", " ", "People">>
          /\ ltFile.text[i + 1] = <<"-", " ", "Dog">>
          /\ ltFile.text[i + 2] = <<"-", " ", "Max">>
          /\ ltFile.text[i + 3] = <<>>
          /\ IsHeading(ltFile.text[i + 4])

\* the step is a setSection that wrote the file
IsSetSectionStep == ltOp'.name = "setSection" /\ ltResult' = "void"

\* C33: after setSection(title, body) getSection(title) returns body; a
\* section that was missing stands at the end of the document; every other
\* section has the title, the place and the body it had; the same call made
\* again leaves the document as it is.
C33_SetSectionReplacesBody ==
    [][IsSetSectionStep
        => LET t == CurrentText
               u == ltCache'.text
               title == ltOp'.section
               body == ltOp'.fact
               T == Titled(t)
               k == FirstTitled(T, title)
           IN  /\ ltFile'.text = u
               /\ getSection(u, title) = [found |-> TRUE, body |-> body]
               /\ k > 0 => Titled(u) = [T EXCEPT ![k].body = body]
               /\ k = 0 => Titled(u) = T \o << [title |-> title, body |-> body] >>
               /\ setSectionText(u, title, body) = u
      ]_vars

\* title stands above two sections of t or more
IsDuplicated(t, title) ==
    \E i, j \in Heads(t) :
        i < j /\ HeadingTitle(t[i]) = title /\ HeadingTitle(t[j]) = title

\* C34: in a document where a title stands above several sections,
\* getSection returns the body of the first of them, and addFact, setSection
\* and addEntry change that first section and leave every other section,
\* the later ones of the same title included, as it was; a fact just added
\* is then in what getSection returns and is seen by the duplicate check.
C34_FirstMatchOnDuplicates ==
    [][/\ ((IsAddFactStep \/ IsSetSectionStep) /\ dnDir' = dnDir)
          => LET t == CurrentText
                 u == ltCache'.text
                 title == ltOp'.section
                 T == Titled(t)
                 k == FirstTitled(T, title)
                 body == IF ltOp'.name = "setSection" THEN ltOp'.fact
                         ELSE T[k].body \o bulletPoint(ltOp'.fact)
             IN  IsDuplicated(t, title)
                   => /\ getSection(t, title) = [found |-> TRUE, body |-> T[k].body]
                      /\ Titled(u) = [T EXCEPT ![k].body = body]
                      /\ getSection(u, title) = [found |-> TRUE, body |-> body]
                      /\ ltOp'.name = "addFact" => hasFact(u, title, ltOp'.fact)
       /\ IsAddEntryStep
          => LET d == dnOp'.date
                 t == ensureToday(dnDir, d).content
                 u == dnDir'.files[d].text
                 title == dnOp'.section
                 T == Titled(t)
                 k == FirstTitled(T, title)
                 entry == entryLine(formatTime(dnClock), dnOp'.content)
             IN  IsDuplicated(t, title)
                   => Titled(u) = [T EXCEPT ![k].body = @ \o << entry >>]
      ]_vars

----------------------------------------------------------------------------
(* Properties of writes that fail *)

\* every line of old that is complete stands in new where it stood
CompleteLinesKept(old, new) ==
    /\ Len(old) <= Len(new)
    /\ \A i \in 1..Len(old) : old[i] # PartialLine => new[i] = old[i]

\* every line of old that is not blank stands somewhere in new
NoLineLost(old, new) ==
    \A i \in 1..Len(old) : ~IsBlank(old[i]) => \E j \in 1..Len(new) : new[j] = old[i]

\* C35: an append to the transcript or to a daily file, whether it
\* completes, fails or is cut short, leaves in the file all that was in it:
\* the transcript keeps every complete line where it stood, the daily file
\* keeps every line it had.
C35_AppendsKeepPriorContent ==
    [][/\ trFile' # trFile /\ trOp'.name = "addUserMessage"
          => CompleteLinesKept(trFile.lines, trFile'.lines)
       /\ dnDir' # dnDir /\ dnOp'.name \in AddEntryNames
          => \A d \in Dates :
                dnDir.files[d].exists
                  => /\ dnDir'.files[d].exists
                     /\ NoLineLost(dnDir.files[d].text, dnDir'.files[d].text)
      ]_vars

\* C36: with one writer, once the transcript is loaded the entries in
\* memory are the lines of the file that parse, in order, and the running
\* total is the sum of their token counts, whatever calls were made and
\* whichever of their writes failed; an append whose write fails leaves the
\* entries and the total in memory as they were.
C36_MemoryMatchesFile ==
    /\ [](loaded => /\ entries = ParsedLines(trFile)
                    /\ totalTokens = TokensFromTo(entries, 1, Len(entries)))
    /\ [][(trResult'.status = "error" /\ trOp'.name = "addUserMessage" /\ loaded)
            => /\ entries' = entries
               /\ totalTokens' = totalTokens
          ]_vars

----------------------------------------------------------------------------
(* Properties of the recent view *)

\* the positions of es that hold a compaction entry
CompactionPositions(es) == {i \in 1..Len(es) : es[i].type = "compaction"}

\* the step appended a compaction entry
AppendsCompaction ==
    \/ trOp'.name = "addCompaction" /\ trFile' # trFile
    \/ trOp'.name = "compact" /\ trResult'.status = "ok" /\ trFile' # trFile

\* C37: getRecentEntries() holds one compaction entry at most, and holds it
\* first; getCompactionCount() counts the compaction entries ever appended,
\* one more with each of them, whether or not the recent view shows them.
C37_OneCompactionInRecent ==
    /\ [](LET recent == getRecentEntries(entries)
          IN  /\ CompactionPositions(recent) \subseteq {1}
              /\ loaded => getCompactionCount(entries)
                             = Cardinality(CompactionPositions(ParsedLines(trFile))))
    /\ [][/\ AppendsCompaction
               => getCompactionCount(entries') = getCompactionCount(entries) + 1
          /\ (~AppendsCompaction /\ loaded)
               => getCompactionCount(entries') = getCompactionCount(entries)
         ]_vars

\* C37 witness: two compaction entries appended, one of them by compact(),
\* and the recent view shows the last one only
C37_Witness ==
    /\ trOp.name = "compact"
    /\ trResult.status = "ok"
    /\ getCompactionCount(entries) = 2
    /\ Cardinality(CompactionPositions(getRecentEntries(entries))) = 1
    /\ getRecentEntries(entries)[1].type = "compaction"

----------------------------------------------------------------------------
(* Properties of appends in flight *)

\* where the entry of caller w stands in memory and in the file, 0 if it
\* is not there
PlaceInMemory(w) ==
    IF \E i \in 1..Len(entries) : entries[i] = pending.tr[w].entry
    THEN CHOOSE i \in 1..Len(entries) : entries[i] = pending.tr[w].entry
    ELSE 0

PlaceInFile(w) ==
    LET l == JSONstringify(pending.tr[w].entry)
    IN  IF \E i \in 1..Len(trFile.lines) : trFile.lines[i] = l
        THEN CHOOSE i \in 1..Len(trFile.lines) : trFile.lines[i] = l
        ELSE 0

\* the second call was made before the first had pushed its entry
InFlightTogether ==
    /\ BothDone("tr")
    /\ EventIndex("tr", 1, "call") < EventIndex("tr", 2, "call")
    /\ EventIndex("tr", 2, "call") < EventIndex("tr", 1, "push")

\* C38: two appends in flight together on one transcript: once both are
\* done, the two entries stand in memory in the order of their lines in
\* the file, both lines are in the file, and the second entry's default
\* parentId is the id of the first.
C38_InFlightAppendsStayOrdered ==
    InFlightTogether
      => /\ PlaceInMemory(1) > 0 /\ PlaceInMemory(2) > 0
         /\ PlaceInFile(1) > 0 /\ PlaceInFile(2) > 0
         /\ PlaceInMemory(1) < PlaceInMemory(2) <=> PlaceInFile(1) < PlaceInFile(2)
         /\ pending.tr[2].entry.parentId = pending.tr[1].entry.id

----------------------------------------------------------------------------
(* Properties of addEntry around midnight *)

\* C39: addEntry writes the file it read: the text written to a day's file
\* is the entry put into the text of that same file, whatever the clock
\* did between the read and the write; no other day's file changes and no
\* line of the file written is lost.
C39_AddEntryWritesFileItRead ==
    [][(dnOp'.name \in AddEntryNames /\ dnDir' # dnDir /\ pending'.dn[1].pc # "read")
        => LET d == dnOp'.date
               target == ensureToday(dnDir, d).content
               time == IF pending.dn[1].pc = "read" THEN pending.dn[1].time
                       ELSE formatTime(dnClock)
           IN  /\ dnDir'.files[d].text
                    = addEntryText(target, entryLine(time, dnOp'.content), dnOp'.section)
               /\ dnDir.files[d].exists
                    => NoLineLost(dnDir.files[d].text, dnDir'.files[d].text)
               /\ \A x \in Dates \ {d} : dnDir'.files[x] = dnDir.files[x]
      ]_vars

----------------------------------------------------------------------------
(* deleteSession and the records it leaves *)

\* the transcript file of every session, at the path getTranscriptPath gives it
TranscriptFiles(cur, pk, tf) ==
    [id \in {OldSession} \cup {ToString(i) : i \in 1..MaxIds} |->
        IF id = cur THEN tf
        ELSE IF \E q \in pk : q.id = id THEN (CHOOSE q \in pk : q.id = id).file
        ELSE NoTranscript]

\* the records of ss other than that of sessionId, in their order
RecordsWithout(ss, sessionId) ==
    LET Other(m) == m.sessionId # sessionId IN SelectSeq(ss, Other)

HasRecord(ss, sessionId) == \E i \in 1..Len(ss) : ss[i].sessionId = sessionId

\* C40: deleteSession(id) of a known id returns true and removes exactly the
\* record of id from the sessions in memory and from the index file, every
\* other record and every transcript file staying as it was; from then on
\* the sessions getSessions() returns never list id again and loadSession(id)
\* returns null; and createSession keeps every record stored before it,
\* unaltered and in place, adding one record of a new id after them.
C40_DeleteRemovesOneRecord ==
    [][/\ (ssOp'.name = "deleteSession" /\ ssOp' # ssOp /\ ~IsUnknown(ssOp'.sessionId))
          => /\ ssResult' = "true"
             /\ sessions' = RecordsWithout(SessionsLoaded, ssOp'.sessionId)
             /\ Len(sessions') = Len(SessionsLoaded) - 1
             /\ ssFile' = SessionsFileOf(sessions')
             /\ TranscriptFiles(current', parked', trFile')
                  = TranscriptFiles(current, parked, trFile)
       /\ \A id \in IssuedIds :
            (ssLoaded /\ ~HasRecord(sessions, id))
               => /\ ~HasRecord(sessions', id)
                  /\ ~HasRecord(ssFile'.sessions, id)
                  /\ (ssOp'.name = "loadSession" /\ ssOp'.sessionId = id /\ ssOp' # ssOp)
                        => ssResult' = "null"
       /\ (ssOp'.name = "createSession" /\ ssOp' # ssOp)
          => /\ SubSeq(sessions', 1, Len(SessionsLoaded)) = SessionsLoaded
             /\ Len(sessions') = Len(SessionsLoaded) + 1
             /\ ~HasRecord(SessionsLoaded, sessions'[Len(sessions')].sessionId)
             /\ ssFile' = SessionsFileOf(sessions')
             /\ \A id \in IssuedIds :
                   TranscriptFiles(current', parked', trFile')[id]
                     = TranscriptFiles(current, parked, trFile)[id]
      ]_vars

\* C40 witness: the session an earlier run left was deleted while a later
\* session with a message in its transcript was open; asked for since,
\* loadSession returned null, the later record is the index, and both
\* transcript files are where they were
C40_Witness ==
    /\ ssOp = SsCall("loadSession", OldSession)
    /\ ssResult = "null"
    /\ Len(sessions) = 1
    /\ ~HasRecord(sessions, OldSession)
    /\ ssFile = SessionsFileOf(sessions)
    /\ current = sessions[1].sessionId
    /\ Len(trFile.lines) >= 1
    /\ TranscriptFiles(current, parked, trFile)[OldSession] = ExistingTranscript

====
